---- MODULE Spec2Model ----
(***************************************************************************)
(* Verification model of the asset_management speculator crate:            *)
(* candlestick indicator, RSI history and trading rules.                   *)
(*                                                                         *)
(* Instants are integers (one unit = one tick of the clock) and prices are *)
(* integers; an Option<T> is a sequence of length 0 (None) or 1 (Some).    *)
(***************************************************************************)
EXTENDS Integers, Sequences, FiniteSets, TLC

VARIABLES
    history,      \* chart.rs CandlestickHistory {indicator, candlesticks}
    rsi_history,  \* indicator/rsi.rs RsiHistory
    rule,         \* rule/*.rs: the rule object under test
    aggregation,  \* trade.rs TradeAggregation
    store,        \* nicehash_speculator: the main and the simulation store
    graph,        \* server/exchange_graph.rs ExchangeGraph
    database,     \* database/logic.rs: the tables behind a connection
    scraper,      \* nicehash_scraper: the position of one run of main()
    writers,      \* database/logic.rs: each connection's position in an add_*
    accepted,     \* log of the inputs accepted so far (history variable)
    call          \* the last call made: operation, argument, returned value

vars ==
    <<history, rsi_history, rule, aggregation, store, graph, database, scraper,
      writers, accepted, call>>

(***************************************************************************)
(* Bounds of the model.                                                    *)
(***************************************************************************)
MinInstant == 4
MaxInstant == 9
MaxPrice == 2
MaxInterval == 3
MaxRequiredCount == 3
MaxRsiInstant == 8
MaxRsiPrice == 3
MaxRuleInstant == 5
MaxRuleInterval == 2
MaxRuleCount == 2
MaxAccepted == 3
MinRecInstant == 5
MaxRecInstant == 9
MaxRecPrice == 2
MaxRecCount == 3
MaxTradeInstant == 6
MaxTradePrice == 2
MaxTradeRules == 2
MaxBalance == 2
MaxSimStamp == 2
MaxEdges == 4
MaxRows == 2
MaxNowStamp == 2
MaxRuns == 2

Instants == MinInstant..MaxInstant
Prices == 1..MaxPrice
\* Every interval is at most MinInstant, so that duration_trunc never fails
\* with DurationExceedsTimestamp (real instants are far from the epoch).
Intervals == 1..MaxInterval
RequiredCounts == 0..MaxRequiredCount
RsiInstants == MinInstant..MaxRsiInstant
RsiPrices == 1..MaxRsiPrice
RuleInstants == MinInstant..MaxRuleInstant
RuleIntervals == 1..MaxRuleInterval
RuleCounts == 1..MaxRuleCount
RecInstants == MinRecInstant..MaxRecInstant
RecPrices == 1..MaxRecPrice
RecCounts == 1..MaxRecCount
TradeInstants == MinInstant..MaxTradeInstant
TradePrices == 1..MaxTradePrice
\* the market of the rule under test is 1; 2 stands for any other market
MarketIds == {1, 2}
OrderSides == {"Buy", "Sell"}
\* "Filled" stands for every OrderState other than Opened
OrderStates == {"Opened", "Filled"}

None == <<>>
Some(x) == <<x>>

Last(s) == s[Len(s)]

NoCall == [op |-> "none", arg |-> None, ret |-> [kind |-> "none", stick |-> None]]

(***************************************************************************)
(* chart.rs                                                                *)
(***************************************************************************)
PriceStamp(stamp, price) == [stamp |-> stamp, price |-> price]

\* chrono DurationRound::duration_trunc on a non-negative instant
duration_trunc(stamp, interval) == stamp - (stamp % interval)

\* from_price_stamps, lines 53-55
next_high_latest_tie(high, price_stamp) ==
    IF high.price <= price_stamp.price THEN price_stamp ELSE high

next_high(high, price_stamp) ==
    IF high.price < price_stamp.price THEN price_stamp ELSE high

\* from_price_stamps, lines 56-58
next_low(low, price_stamp) ==
    IF low.price > price_stamp.price THEN price_stamp ELSE low

RECURSIVE from_price_stamps_fold(_, _, _)
from_price_stamps_fold(stick, iter, i) ==
    IF i > Len(iter) THEN stick
    ELSE LET price_stamp == iter[i]
         IN from_price_stamps_fold(
                [open |-> stick.open, close |-> price_stamp,
                 high |-> next_high(stick.high, price_stamp),
                 low |-> next_low(stick.low, price_stamp)], iter, i + 1)

\* Candlestick::from_price_stamps: None on an empty sequence
from_price_stamps(iter) ==
    IF Len(iter) = 0 THEN None
    ELSE Some(from_price_stamps_fold(
                [open |-> iter[1], close |-> iter[1],
                 high |-> iter[1], low |-> iter[1]], iter, 2))

CandlestickIndicator_new(interval) ==
    [interval |-> interval,
     remaining_price_stamps |-> <<>>,
     is_candlestick_determined_just_now |-> FALSE]

Err == [kind |-> "Err", stick |-> None]
NotDeterminedYet == [kind |-> "NotDeterminedYet", stick |-> None]
Determined(stick) == [kind |-> "Determined", stick |-> Some(stick)]

\* update, line 121: the guard of the first match arm
timestamp_constraint_fails_gt(last, price_stamp) ==
    last.stamp > price_stamp.stamp

timestamp_constraint_fails(last, price_stamp) ==
    last.stamp >= price_stamp.stamp

\* update, lines 125-130: both instants truncate to the same multiple of interval
same_interval_by_distance(last, price_stamp, interval) ==
    price_stamp.stamp - last.stamp < interval

same_interval(last, price_stamp, interval) ==
    LET trunc1 == duration_trunc(last.stamp, interval)
        trunc2 == duration_trunc(price_stamp.stamp, interval)
    IN trunc1 = trunc2

\* update, lines 131-133 and 145-147: buffer the price
push_price_stamp_keep_flag(self, price_stamp) ==
    [self |-> [self EXCEPT
         !.remaining_price_stamps = Append(@, price_stamp)],
     ret |-> NotDeterminedYet]

push_price_stamp(self, price_stamp) ==
    [self |-> [self EXCEPT
         !.remaining_price_stamps = Append(@, price_stamp),
         !.is_candlestick_determined_just_now = FALSE],
     ret |-> NotDeterminedYet]

\* update, lines 135-141: close the candlestick of the buffered prices
determine_candlestick(self, price_stamp) ==
    [self |-> [self EXCEPT
         !.remaining_price_stamps = <<price_stamp>>,
         !.is_candlestick_determined_just_now = TRUE],
     ret |-> Determined(from_price_stamps(self.remaining_price_stamps)[1])]

\* CandlestickIndicator::update: the new object and the returned value
CandlestickIndicator_update(self, price_stamp) ==
    LET rps == self.remaining_price_stamps IN
    IF Len(rps) > 0 /\ timestamp_constraint_fails(Last(rps), price_stamp)
    THEN [self |-> self, ret |-> Err]
    ELSE IF Len(rps) > 0
    THEN IF same_interval(Last(rps), price_stamp, self.interval)
         THEN push_price_stamp(self, price_stamp)
         ELSE determine_candlestick(self, price_stamp)
    ELSE push_price_stamp(self, price_stamp)

CandlestickHistory_new(interval) ==
    [indicator |-> CandlestickIndicator_new(interval), candlesticks |-> <<>>]

candlesticks_push_front(candlesticks, stick) == <<stick>> \o candlesticks

\* update, line 191: self.candlesticks.push(stick)
candlesticks_push(candlesticks, stick) == Append(candlesticks, stick)

\* CandlestickHistory::update
CandlestickHistory_update(self, price_stamp) ==
    LET res == CandlestickIndicator_update(self.indicator, price_stamp) IN
    [self |-> [indicator |-> res.self,
               candlesticks |-> IF res.ret.kind = "Determined"
                                THEN candlesticks_push(self.candlesticks,
                                                       res.ret.stick[1])
                                ELSE self.candlesticks],
     ret |-> res.ret]

\* CandlestickHistory::is_candlestick_determined_just_now
is_candlestick_determined_just_now ==
    history.indicator.is_candlestick_determined_just_now

\* CandlestickHistory::candlesticks
candlesticks == history.candlesticks

(***************************************************************************)
(* indicator/rsi.rs.  An Rsi is the exact ratio num/den of the f64         *)
(* division increase / (increase + decrease); den = 0 is the non-finite    *)
(* quotient.                                                               *)
(***************************************************************************)
\* PriceChange::from_change
PriceChange_from_change_unsigned(change) ==
    IF change > 0 THEN [kind |-> "Increase", c |-> change]
    ELSE [kind |-> "Decrease", c |-> change]

PriceChange_from_change(change) ==
    IF change > 0 THEN [kind |-> "Increase", c |-> change]
    ELSE [kind |-> "Decrease", c |-> -change]

RECURSIVE from_changes_fold(_, _, _)
from_changes_fold(acc, changes, i) ==
    IF i > Len(changes) THEN acc
    ELSE from_changes_fold(
            IF changes[i].kind = "Increase"
            THEN [inc |-> acc.inc + changes[i].c, dec |-> acc.dec]
            ELSE [inc |-> acc.inc, dec |-> acc.dec + changes[i].c],
            changes, i + 1)

\* Rsi::from_changes
Rsi_from_changes_unchecked(changes) ==
    LET acc == from_changes_fold([inc |-> 0, dec |-> 0], changes, 1)
    IN Some([num |-> acc.inc, den |-> acc.inc + acc.dec])

Rsi_from_changes(changes) ==
    LET acc == from_changes_fold([inc |-> 0, dec |-> 0], changes, 1)
        rsi == [num |-> acc.inc, den |-> acc.inc + acc.dec]
    IN IF rsi.den # 0 THEN Some(rsi) ELSE None

\* RsiStamp::new
RsiStamp(open, close, rsi) == [open |-> open, close |-> close, rsi |-> rsi]

\* calculate_rsi_of, lines 181-185: the changes of successive prices
tuple_windows_changes(iter) ==
    [i \in 1..(Len(iter) - 1) |->
        PriceChange_from_change(iter[i + 1].price - iter[i].price)]

\* RsiHistory::calculate_rsi_of
calculate_rsi_of(iter) ==
    IF Len(iter) = 0 THEN None
    ELSE LET open == iter[1].stamp
             close == iter[Len(iter)].stamp
             rsi == Rsi_from_changes(tuple_windows_changes(iter))
         IN IF rsi = None THEN None
            ELSE Some(RsiStamp(open, close, rsi[1]))

\* calculate_rsi, lines 157-163: the open PriceStamps of the last n sticks
target_sticks_first(sticks, n) ==
    [i \in 1..n |-> sticks[i].open]

target_sticks(sticks, n) ==
    [i \in 1..n |-> sticks[Len(sticks) - n + i].open]

\* calculate_rsi, line 152
insufficient_sticks_le(len, required_count) == len <= required_count

insufficient_sticks(len, required_count) == len < required_count

\* RsiHistory::calculate_rsi
calculate_rsi(self) ==
    IF insufficient_sticks(Len(self.candlesticks), self.candlestick_required_count)
    THEN None
    ELSE calculate_rsi_of(
            target_sticks(self.candlesticks, self.candlestick_required_count))

IncompleteRsiHistory_new(span) == [span |-> span, prices |-> <<>>]

\* IncompleteRsiHistory::update: the new object and the returned value.
\* CandleStick::from_price_stamps is chart.rs's Candlestick::from_price_stamps.
IncompleteRsiHistory_update(self, price_stamp) ==
    IF Len(self.prices) > 0 /\ Last(self.prices).stamp >= price_stamp.stamp
    THEN [self |-> self, ret |-> [kind |-> "Err", stick |-> None]]
    ELSE IF Len(self.prices) > 0
    THEN LET trunc1 == duration_trunc(self.prices[1].stamp, self.span)
             trunc2 == duration_trunc(price_stamp.stamp, self.span)
         IN IF trunc1 = trunc2
            THEN [self |-> [self EXCEPT !.prices = Append(@, price_stamp)],
                  ret |-> [kind |-> "ToBeContinued", stick |-> None]]
            ELSE [self |-> [self EXCEPT !.prices = <<price_stamp>>],
                  ret |-> [kind |-> "CandlestickDetermined",
                           stick |-> from_price_stamps(self.prices)]]
    ELSE [self |-> [self EXCEPT !.prices = Append(@, price_stamp)],
          ret |-> [kind |-> "ToBeContinued", stick |-> None]]

RsiHistory_new(candlestick_span, candlestick_required_count) ==
    [candlestick_span |-> candlestick_span,
     candlestick_required_count |-> candlestick_required_count,
     candlesticks |-> <<>>,
     candlestick_rsis |-> <<>>,
     incomplete_history |-> IncompleteRsiHistory_new(candlestick_span),
     is_all_candlestick_determined |-> FALSE]

Ok == [kind |-> "Ok", stick |-> None]

\* RsiHistory::update: the new object and the returned value
RsiHistory_update(self, price_stamp) ==
    LET res == IncompleteRsiHistory_update(self.incomplete_history, price_stamp)
    IN IF res.ret.kind = "CandlestickDetermined"
       THEN LET pushed == [self EXCEPT
                    !.incomplete_history = res.self,
                    !.candlesticks = Append(@, res.ret.stick[1])]
                rsi == calculate_rsi(pushed)
            IN [self |-> IF rsi # None
                         THEN [pushed EXCEPT
                                  !.candlestick_rsis = Append(@, rsi[1]),
                                  !.is_all_candlestick_determined = TRUE]
                         ELSE [pushed EXCEPT
                                  !.is_all_candlestick_determined = FALSE],
                ret |-> Ok]
       ELSE IF res.ret.kind = "ToBeContinued"
       THEN [self |-> [self EXCEPT
                !.incomplete_history = res.self,
                !.is_all_candlestick_determined = FALSE],
             ret |-> Ok]
       ELSE [self |-> self, ret |-> Err]

\* RsiHistory::rsis
rsis == rsi_history.candlestick_rsis

(***************************************************************************)
(* indicator.rs: DataItemBuffer, IndicatorBuffer, IndicatorHistory.        *)
(***************************************************************************)
SeqMin(prices) ==
    CHOOSE x \in {prices[i] : i \in 1..Len(prices)} :
        \A i \in 1..Len(prices) : x <= prices[i]

SeqMax(prices) ==
    CHOOSE x \in {prices[i] : i \in 1..Len(prices)} :
        \A i \in 1..Len(prices) : x >= prices[i]

\* DataItem::builder()...build()
DataItem(open, close, high, low) ==
    [open |-> open, close |-> close, high |-> high, low |-> low, volume |-> 0]

DataItemBuffer_new(buffer_interval) ==
    [interval |-> buffer_interval, stamps |-> <<>>]

\* DataItemBuffer::next: the new object and Ok(Option<DataItem>) or Err
DataItemBuffer_next(self, price_stamp) ==
    IF Len(self.stamps) = 0
    THEN [self |-> [self EXCEPT !.stamps = Append(@, price_stamp)],
          ret |-> [kind |-> "Ok", item |-> None]]
    ELSE IF ~(Last(self.stamps).stamp < price_stamp.stamp)
    THEN [self |-> self, ret |-> [kind |-> "Err", item |-> None]]
    ELSE LET trunc1 == duration_trunc(Last(self.stamps).stamp, self.interval)
             trunc2 == duration_trunc(price_stamp.stamp, self.interval)
         IN IF trunc1 = trunc2
            THEN [self |-> [self EXCEPT !.stamps = Append(@, price_stamp)],
                  ret |-> [kind |-> "Ok", item |-> None]]
            ELSE LET prices == [i \in 1..Len(self.stamps) |-> self.stamps[i].price]
                     item == DataItem(prices[1], Last(prices),
                                      SeqMax(prices), SeqMin(prices))
                 IN [self |-> [self EXCEPT !.stamps = <<price_stamp>>],
                     ret |-> [kind |-> "Ok", item |-> Some(item)]]

\* IndicatorBuffer::new; dataitem is zero-initialised
IndicatorBuffer_new(indicator, buffer_interval) ==
    [indicator |-> indicator,
     buffer |-> DataItemBuffer_new(buffer_interval),
     dataitem |-> DataItem(0, 0, 0, 0)]

\* IndicatorBuffer::next; output is the value that the indicator of the ta
\* crate returns for the closed DataItem
IndicatorBuffer_next(self, price_stamp, output) ==
    LET res == DataItemBuffer_next(self.buffer, price_stamp)
    IN IF res.ret.kind = "Ok" /\ res.ret.item # None
       THEN [self |-> [self EXCEPT !.buffer = res.self,
                                   !.dataitem = res.ret.item[1]],
             ret |-> [kind |-> "Ok",
                      item |-> Some(<<res.ret.item[1], output>>)]]
       ELSE IF res.ret.kind = "Ok"
       THEN [self |-> [self EXCEPT !.buffer = res.self],
             ret |-> [kind |-> "Ok", item |-> None]]
       ELSE [self |-> self, ret |-> [kind |-> "Err", item |-> None]]

IndicatorHistory_new(indicator_buffer) ==
    [indicator_buffer |-> indicator_buffer, history |-> <<>>]

IndicatorHistory_next_closing_only(self, price_stamp, output) ==
    LET res == IndicatorBuffer_next(self.indicator_buffer, price_stamp, output)
    IN IF res.ret.kind = "Ok"
       THEN [self |-> [indicator_buffer |-> res.self,
                       history |-> IF res.ret.item = None THEN self.history
                                   ELSE Append(self.history, res.ret.item)],
             ret |-> res.ret]
       ELSE [self |-> self, ret |-> res.ret]

\* IndicatorHistory::next
IndicatorHistory_next(self, price_stamp, output) ==
    LET res == IndicatorBuffer_next(self.indicator_buffer, price_stamp, output)
    IN IF res.ret.kind = "Ok"
       THEN [self |-> [indicator_buffer |-> res.self,
                       history |-> Append(self.history, res.ret.item)],
             ret |-> res.ret]
       ELSE [self |-> self, ret |-> res.ret]

\* the values ta::indicators::RelativeStrengthIndex may return, in percent
RelativeStrengthIndex_outputs == {0, 100}

\* RelativeStrengthIndex::new(period)
RelativeStrengthIndex_new(period) == [period |-> period]

(***************************************************************************)
(* The RsiHistory that rule/rsi_cross.rs is written against: Option-valued *)
(* rsis(), one entry per closed candlestick (spec 4.2).                    *)
(***************************************************************************)
CrossRsiHistory_new(candlestick_interval, candlestick_required_count) ==
    [candlestick_history |-> CandlestickHistory_new(candlestick_interval),
     candlestick_required_count |-> candlestick_required_count,
     rsis |-> <<>>]

RECURSIVE CrossRsi_sum(_, _, _)
\* the sum of max(sign * (p[i] - p[i-1]), 0) over i = 2 .. n
CrossRsi_sum(p, n, sign) ==
    IF n <= 1 THEN 0
    ELSE LET delta == sign * (p[n] - p[n - 1])
         IN CrossRsi_sum(p, n - 1, sign) + (IF delta > 0 THEN delta ELSE 0)

\* the entry pushed when a candlestick closes
CrossRsiHistory_calculate_rsi(sticks, n) ==
    IF Len(sticks) < n THEN None
    ELSE LET w == [i \in 1..n |-> sticks[Len(sticks) - n + i]]
             p == [i \in 1..n |-> w[i].close.price]
             up == CrossRsi_sum(p, n, 1)
             down == CrossRsi_sum(p, n, -1)
         IN IF up + down > 0
            THEN Some(RsiStamp(w[1].open.stamp, w[n].close.stamp,
                               [num |-> up, den |-> up + down]))
            ELSE None

CrossRsiHistory_update(self, price_stamp) ==
    LET res == CandlestickHistory_update(self.candlestick_history, price_stamp)
    IN IF res.ret.kind = "Err" THEN [self |-> self, ret |-> Err]
       ELSE IF res.ret.kind = "Determined"
       THEN [self |-> [self EXCEPT
                !.candlestick_history = res.self,
                !.rsis = Append(@, CrossRsiHistory_calculate_rsi(
                            res.self.candlesticks,
                            self.candlestick_required_count))],
             ret |-> Ok]
       ELSE [self |-> [self EXCEPT !.candlestick_history = res.self],
             ret |-> Ok]

(***************************************************************************)
(* rule.rs, rule/fixed.rs, rule/rsi_cross.rs, rule/rsi_divergence.rs       *)
(***************************************************************************)
Market(market_id) == [market_id |-> market_id]

\* MarketState::new, with the fields the rules read
MarketState(timestamp, price_market_id, amount, orderbooks, myorders) ==
    [stamp |-> [timestamp |-> timestamp],
     price |-> [market_id |-> price_market_id, amount |-> amount],
     orderbooks |-> orderbooks,
     myorders |-> myorders]

\* Rule::is_correct_market_state
is_correct_market_state_price_only(self, market_state) ==
    market_state.price.market_id = self.market.market_id

is_correct_market_state(self, market_state) ==
    LET id == self.market.market_id
        price_cond == market_state.price.market_id = id
        orderbook_cond ==
            \A i \in 1..Len(market_state.orderbooks) :
                market_state.orderbooks[i].market_id = id
        myorder_cond ==
            \A i \in 1..Len(market_state.myorders) :
                market_state.myorders[i].market_id = id
    IN price_cond /\ orderbook_cond /\ myorder_cond

\* RuleError
MarketConstraint == [kind |-> "MarketConstraint", stick |-> None]
StampConstraint == [kind |-> "StampConstraint", stick |-> None]
Other == [kind |-> "Other", stick |-> None]

FixedRule_new(market, side) ==
    [kind |-> "fixed", market |-> market, side |-> side]

\* FixedRule::update_market_state
FixedRule_update_market_state(self, market_state) ==
    IF is_correct_market_state(self, market_state)
    THEN [self |-> self, ret |-> Ok]
    ELSE [self |-> self, ret |-> MarketConstraint]

\* update_market_state: the check against the last retained state
deny_older_timestamp(market_states, market_state) ==
    /\ Len(market_states) > 0
    /\ Last(market_states).stamp.timestamp >= market_state.stamp.timestamp

\* update_market_state: myorders.retain(|m| m.state == OrderState::Opened)
retain_opened(market_state) ==
    [market_state EXCEPT
        !.myorders = SelectSeq(@, LAMBDA m : m.state = "Opened")]

\* an Rsi given in percent, as the ratio percent/100
RsiPercent(percent) == [num |-> percent, den |-> 100]

\* f64 comparison of two finite Rsi values (denominators are positive)
Rsi_lt(a, b) == a.num * b.den < b.num * a.den
Rsi_le(a, b) == a.num * b.den <= b.num * a.den

RsiCrossParameter_new(candlestick_interval, candlestick_required_count, buy, sell, upper_pending, lower_pending) ==
    [candlestick_interval |-> candlestick_interval,
     candlestick_required_count |-> candlestick_required_count,
     buy |-> buy, sell |-> sell,
     upper_pending |-> upper_pending, lower_pending |-> lower_pending]

RsiCrossRule_new(market, parameter) ==
    [kind |-> "rsi_cross", market |-> market, parameter |-> parameter,
     market_states |-> <<>>,
     rsi_history |-> CrossRsiHistory_new(parameter.candlestick_interval,
                                         parameter.candlestick_required_count)]

\* RsiCrossRule::update_market_state
RsiCrossRule_update_market_state(self, market_state) ==
    IF ~is_correct_market_state(self, market_state)
    THEN [self |-> self, ret |-> MarketConstraint]
    ELSE IF deny_older_timestamp(self.market_states, market_state)
    THEN [self |-> self, ret |-> StampConstraint]
    ELSE LET price_stamp == PriceStamp(market_state.stamp.timestamp,
                                       market_state.price.amount)
             res == CrossRsiHistory_update(self.rsi_history, price_stamp)
         IN IF res.ret.kind = "Err" THEN [self |-> self, ret |-> Other]
            ELSE [self |-> [self EXCEPT
                      !.rsi_history = res.self,
                      !.market_states = Append(@, retain_opened(market_state))],
                  ret |-> Ok]

\* RsiHistory::is_candlestick_determined_just_now of that RsiHistory
CrossRsiHistory_is_candlestick_determined_just_now(self) ==
    self.candlestick_history.indicator.is_candlestick_determined_just_now

\* RecommendationType of each variant of a rule's recommendation
recommendation_type(recommendation) ==
    IF recommendation.variant = "RsiUndetermined" THEN "Neutral"
    ELSE recommendation.variant

\* recommend, line 115: rsis().iter().tuple_windows().last(), the last two
\* entries of the history, each mapped to its Option<Rsi>
last_rsi_pair_defined_only(rsis_) ==
    LET defined == SelectSeq(rsis_, LAMBDA e : e # None)
    IN IF Len(defined) < 2 THEN None
       ELSE Some([prev |-> Some(defined[Len(defined) - 1][1].rsi),
                  current |-> Some(defined[Len(defined)][1].rsi)])

last_rsi_pair(rsis_) ==
    IF Len(rsis_) < 2 THEN None
    ELSE LET prev == rsis_[Len(rsis_) - 1]
             current == rsis_[Len(rsis_)]
         IN Some([prev |-> IF prev = None THEN None ELSE Some(prev[1].rsi),
                  current |-> IF current = None THEN None
                              ELSE Some(current[1].rsi)])

\* recommend, line 125: the gate on the candlestick determined just now
rsi_undetermined_gate_open(self) == FALSE

rsi_undetermined_gate(self) ==
    ~CrossRsiHistory_is_candlestick_determined_just_now(self.rsi_history)

\* recommend, line 130: the guard of the Buy arm
is_buy_cross_strict(prev, current, p) ==
    /\ prev # None /\ current # None
    /\ Rsi_lt(prev[1], p.buy) /\ Rsi_lt(p.buy, current[1])

is_buy_cross(prev, current, p) ==
    /\ prev # None /\ current # None
    /\ Rsi_lt(prev[1], p.buy) /\ Rsi_le(p.buy, current[1])

\* recommend, line 133: the guard of the Sell arm
is_sell_cross(prev, current, p) ==
    /\ prev # None /\ current # None
    /\ Rsi_lt(p.sell, prev[1]) /\ Rsi_le(current[1], p.sell)

\* recommend, lines 136-141: the guards of the two Pending arms
is_pending(current, p) ==
    /\ current # None
    /\ \/ Rsi_lt(p.upper_pending, current[1])
       \/ Rsi_lt(current[1], p.lower_pending)

\* recommend, lines 129-143: the match on (prev, current), arm by arm
match_prev_current_pending_first(prev, current, p) ==
    IF is_pending(current, p) THEN [variant |-> "Pending"]
    ELSE IF is_buy_cross(prev, current, p) THEN [variant |-> "Buy"]
    ELSE IF is_sell_cross(prev, current, p) THEN [variant |-> "Sell"]
    ELSE [variant |-> "Neutral"]

match_prev_current(prev, current, p) ==
    IF is_buy_cross(prev, current, p) THEN [variant |-> "Buy"]
    ELSE IF is_sell_cross(prev, current, p) THEN [variant |-> "Sell"]
    ELSE IF is_pending(current, p) THEN [variant |-> "Pending"]
    ELSE [variant |-> "Neutral"]

\* RsiCrossRule::recommend
RsiCrossRule_recommend(self) ==
    LET p == self.parameter
        pair == last_rsi_pair(self.rsi_history.rsis)
    IN IF pair = None THEN [variant |-> "RsiUndetermined"]
       ELSE IF rsi_undetermined_gate(self)
       THEN [variant |-> "RsiUndetermined"]
       ELSE match_prev_current(pair[1].prev, pair[1].current, p)

\* FixedRule::duration_requirement
FixedRule_duration_requirement(self) == None

FixedRule_recommend_buy(self) == [variant |-> "Buy"]

\* FixedRule::recommend and FixedRuleRecommendation::recommendation_type
FixedRule_recommend(self) == [variant |-> self.side]

\* FixedRuleRecommendation::reason
FixedRuleRecommendation_reason(recommendation) == "Based on fixed trade rule"

RsiDivergenceParameter_new(candlestick_interval, candlestick_count, candlestick_maxima_interval, upper_divergence_trigger, lower_divergence_trigger) ==
    [candlestick_interval |-> candlestick_interval,
     candlestick_count |-> candlestick_count,
     candlestick_maxima_interval |-> candlestick_maxima_interval,
     upper_divergence_trigger |-> upper_divergence_trigger,
     lower_divergence_trigger |-> lower_divergence_trigger]

RsiDivergenceRule_new(market, parameter) ==
    [kind |-> "rsi_divergence", market |-> market, parameter |-> parameter,
     market_states |-> <<>>,
     rsi_history |-> IndicatorHistory_new(IndicatorBuffer_new(
            RelativeStrengthIndex_new(parameter.candlestick_count),
            parameter.candlestick_interval))]

\* RsiDivergenceRule::update_market_state
RsiDivergenceRule_update_market_state(self, market_state, output) ==
    IF ~is_correct_market_state(self, market_state)
    THEN [self |-> self, ret |-> MarketConstraint]
    ELSE IF deny_older_timestamp(self.market_states, market_state)
    THEN [self |-> self, ret |-> StampConstraint]
    ELSE LET price_stamp == PriceStamp(market_state.stamp.timestamp,
                                       market_state.price.amount)
             res == IndicatorHistory_next(self.rsi_history, price_stamp, output)
         IN IF res.ret.kind = "Err" THEN [self |-> self, ret |-> Other]
            ELSE [self |-> [self EXCEPT
                      !.rsi_history = res.self,
                      !.market_states = Append(@, retain_opened(market_state))],
                  ret |-> Ok]

\* recommend, lines 123-142: the determined (DataItem, RSI) pairs of the
\* history, .skip(start).take(end - start)
peak_candidates(self) ==
    LET defined == SelectSeq(self.rsi_history.history, LAMBDA e : e # None)
        start == self.parameter.candlestick_maxima_interval.start
        end == self.parameter.candlestick_maxima_interval.end
        upto == IF end < Len(defined) THEN end ELSE Len(defined)
    IN [i \in 1..(upto - start) |-> defined[start + i][1]]

\* itertools minmax_by_key: of several equal minima the first one
rsi_lower_peak(candidates) ==
    candidates[CHOOSE i \in 1..Len(candidates) :
        /\ \A j \in 1..Len(candidates) : candidates[i][2] <= candidates[j][2]
        /\ \A j \in 1..(i - 1) : candidates[j][2] > candidates[i][2]]

\* itertools minmax_by_key: of several equal maxima the last one
rsi_upper_peak(candidates) ==
    candidates[CHOOSE i \in 1..Len(candidates) :
        /\ \A j \in 1..Len(candidates) : candidates[j][2] <= candidates[i][2]
        /\ \A j \in (i + 1)..Len(candidates) :
                candidates[j][2] < candidates[i][2]]

\* recommend, line 128: the gate on the candlestick determined just now
last_entry_undetermined_never(history_) == FALSE

last_entry_undetermined(history_) ==
    Len(history_) > 0 /\ Last(history_) = None

\* recommend, line 144: peak_candidates.clone().last()
last_of(candidates) == Last(candidates)

\* RsiDivergenceRule::recommend
RsiDivergenceRule_recommend(self) ==
    IF last_entry_undetermined(self.rsi_history.history)
    THEN [variant |-> "Neutral"]
    ELSE LET candidates == peak_candidates(self) IN
    IF Len(candidates) = 0 THEN [variant |-> "Neutral"]
    ELSE LET last_price == last_of(candidates)[1].close
             last_rsi == last_of(candidates)[2]
             upper == rsi_upper_peak(candidates)
             lower == rsi_lower_peak(candidates)
             p == self.parameter
         IN IF /\ p.upper_divergence_trigger < last_rsi
               /\ last_rsi < upper[2]
               /\ last_price > upper[1].close
            THEN [variant |-> "Sell"]
            ELSE IF /\ p.lower_divergence_trigger > last_rsi
                    /\ last_rsi > lower[2]
                    /\ last_price < lower[1].close
            THEN [variant |-> "Buy"]
            ELSE [variant |-> "Neutral"]

\* Rule::recommend, dispatched on the kind of rule
Rule_recommend(self) ==
    IF self.kind = "fixed" THEN FixedRule_recommend(self)
    ELSE IF self.kind = "rsi_cross" THEN RsiCrossRule_recommend(self)
    ELSE RsiDivergenceRule_recommend(self)

\* Rule::update_market_state, dispatched on the kind of rule
Rule_update_market_state(self, market_state, output) ==
    IF self.kind = "fixed"
    THEN FixedRule_update_market_state(self, market_state)
    ELSE IF self.kind = "rsi_cross"
    THEN RsiCrossRule_update_market_state(self, market_state)
    ELSE RsiDivergenceRule_update_market_state(self, market_state, output)

(***************************************************************************)
(* trade.rs.  Weights, ratios and amounts are exact ratios num/den with    *)
(* den >= 0; den = 0 is the NaN that the f64 division 0.0 / 0.0 yields.    *)
(***************************************************************************)
Rat(n, d) == [num |-> n, den |-> d]
Rat_mul(a, b) == Rat(a.num * b.num, a.den * b.den)
Rat_div(a, b) == Rat(a.num * b.den, a.den * b.num)
Rat_add(a, b) == Rat(a.num * b.den + b.num * a.den, a.den * b.den)
Rat_neg(a) == Rat(-a.num, a.den)
Rat_abs(a) == Rat(IF a.num < 0 THEN -a.num ELSE a.num, a.den)

\* f64 comparisons: false as soon as one side is NaN
Rat_gt(a, b) == a.den # 0 /\ b.den # 0 /\ a.num * b.den > b.num * a.den
Rat_lt(a, b) == a.den # 0 /\ b.den # 0 /\ a.num * b.den < b.num * a.den
Rat_le(a, b) == a.den # 0 /\ b.den # 0 /\ a.num * b.den <= b.num * a.den

TradeParameter(buy_trigger, sell_trigger, buy_quantity_ratio, sell_quantity_ratio, market_ratio, limit_ratio, buy_market_allowable_diff_ratio, sell_market_allowable_diff_ratio, buy_limit_diff_ratio, sell_limit_diff_ratio) ==
    [buy_trigger |-> buy_trigger, sell_trigger |-> sell_trigger,
     buy_quantity_ratio |-> buy_quantity_ratio,
     sell_quantity_ratio |-> sell_quantity_ratio,
     market_ratio |-> market_ratio, limit_ratio |-> limit_ratio,
     buy_market_allowable_diff_ratio |-> buy_market_allowable_diff_ratio,
     sell_market_allowable_diff_ratio |-> sell_market_allowable_diff_ratio,
     buy_limit_diff_ratio |-> buy_limit_diff_ratio,
     sell_limit_diff_ratio |-> sell_limit_diff_ratio]

market_limit_ratio_as_given(self) == <<self.market_ratio, self.limit_ratio>>

\* TradeParameter::market_limit_ratio
market_limit_ratio(self) ==
    LET sum == Rat_add(self.market_ratio, self.limit_ratio)
    IN <<Rat_div(self.market_ratio, sum), Rat_div(self.limit_ratio, sum)>>

WeightedRule(rule_, weight) == [rule |-> rule_, weight |-> weight]

\* TradeAggregation::new
TradeAggregation_new(market, parameter, weighted_rules) ==
    [market |-> market, parameter |-> parameter,
     weighted_rules |-> weighted_rules, last_market_state |-> None]

\* update_market_state, lines 154-160: collect_vec drives the iterator over
\* every rule, whatever the rules before it returned
visits_next_rule_until_error(errors) == Len(errors) = 0

visits_next_rule(errors) == TRUE

RECURSIVE update_rules(_, _, _, _)
\* the rules from the i-th on are updated in order; the errors are collected
update_rules(weighted_rules, market_state, i, errors) ==
    IF i > Len(weighted_rules) \/ ~visits_next_rule(errors)
    THEN [weighted_rules |-> weighted_rules, errors |-> errors]
    ELSE LET res == Rule_update_market_state(weighted_rules[i].rule,
                                             market_state, 0)
         IN update_rules(
                [weighted_rules EXCEPT ![i].rule = res.self], market_state,
                i + 1,
                IF res.ret.kind = "Ok" THEN errors
                ELSE Append(errors, res.ret.kind))

\* TradeAggregation::update_market_state: the new object and Ok or Err(errors)
TradeAggregation_update_market_state(self, market_state) ==
    LET res == update_rules(self.weighted_rules, market_state, 1, <<>>)
    IN [self |-> [self EXCEPT !.weighted_rules = res.weighted_rules,
                              !.last_market_state = Some(market_state)],
        ret |-> [kind |-> IF Len(res.errors) = 0 THEN "Ok" ELSE "Err",
                 errors |-> res.errors]]

\* recommend, lines 179-184: the vote of a recommendation type
evaluation_pending_skipped(type) ==
    IF type = "Buy" THEN Some(1)
    ELSE IF type = "Sell" THEN Some(-1)
    ELSE None

evaluation(type) ==
    IF type = "Buy" THEN Some(1)
    ELSE IF type = "Sell" THEN Some(-1)
    ELSE IF type = "Pending" THEN Some(0)
    ELSE None

RECURSIVE recommend_fold(_, _, _)
\* recommend, lines 173-191: the loop over the weighted rules
recommend_fold(weighted_rules, i, acc) ==
    IF i > Len(weighted_rules) THEN acc
    ELSE LET type == recommendation_type(
                        Rule_recommend(weighted_rules[i].rule))
             e == evaluation(type)
             weight == weighted_rules[i].weight
         IN recommend_fold(weighted_rules, i + 1,
                [weight_sum |-> IF e # None THEN acc.weight_sum + weight
                                ELSE acc.weight_sum,
                 sum |-> IF e # None THEN acc.sum + e[1] * weight
                         ELSE acc.sum,
                 recommendations |-> Append(acc.recommendations, type)])

\* recommend, line 198: the guard m > buy_trigger
exceeds_buy_trigger_not_le(mean, parameter) ==
    ~Rat_le(mean, parameter.buy_trigger)

exceeds_buy_trigger(mean, parameter) ==
    Rat_gt(mean, parameter.buy_trigger)

\* recommend, lines 197-201
aggregated_recommendation_type(mean, parameter) ==
    IF exceeds_buy_trigger(mean, parameter) THEN "Buy"
    ELSE IF Rat_lt(mean, Rat_neg(parameter.sell_trigger)) THEN "Sell"
    ELSE "Pending"

\* TradeAggregation::recommend
TradeAggregation_recommend(self) ==
    LET acc == recommend_fold(self.weighted_rules, 1,
                   [weight_sum |-> 0, sum |-> 0, recommendations |-> <<>>])
        mean == Rat(acc.sum, acc.weight_sum)
        type == aggregated_recommendation_type(mean, self.parameter)
    IN [parameter |-> self.parameter,
        recommendation_type |-> type,
        quantity_ratio |->
            IF type = "Buy"
            THEN Rat_mul(Rat_abs(mean), self.parameter.buy_quantity_ratio)
            ELSE IF type = "Sell"
            THEN Rat_mul(Rat_abs(mean), self.parameter.sell_quantity_ratio)
            ELSE Rat(0, 1),
        source_recommendations |-> acc.recommendations,
        last_market_state |-> self.last_market_state]

OrderRecommendation(side, order_type, base_quantity, quote_quantity, price) ==
    [side |-> side, order_type |-> order_type,
     base_quantity |-> base_quantity, quote_quantity |-> quote_quantity,
     price |-> price]

market_buy_order(parameter, market_state, quote_quantity) ==
    LET price == Rat(market_state.price.amount, 1)
        base_quantity == Rat_mul(Rat_div(quote_quantity, price),
                                 parameter.buy_market_allowable_diff_ratio)
    IN OrderRecommendation("Buy", "Market", base_quantity, quote_quantity,
                           price)

market_sell_order(parameter, market_state, base_quantity) ==
    LET price == Rat(market_state.price.amount, 1)
        quote_quantity == Rat_mul(Rat_mul(base_quantity, price),
                                  parameter.sell_market_allowable_diff_ratio)
    IN OrderRecommendation("Sell", "Market", base_quantity, quote_quantity,
                           price)

limit_buy_order(parameter, market_state, quote_quantity) ==
    LET price == Rat_mul(Rat(market_state.price.amount, 1),
                         parameter.buy_limit_diff_ratio)
        base_quantity == Rat_div(quote_quantity, price)
    IN OrderRecommendation("Buy", "Limit", base_quantity, quote_quantity,
                           price)

limit_sell_order(parameter, market_state, base_quantity) ==
    LET price == Rat_mul(Rat(market_state.price.amount, 1),
                         parameter.sell_limit_diff_ratio)
        quote_quantity == Rat_mul(base_quantity, price)
    IN OrderRecommendation("Sell", "Limit", base_quantity, quote_quantity,
                           price)

\* AggregatedRecommendation::recommend_orders; a balance is its available
\* amount
recommend_orders(self, base_balance, quote_balance) ==
    IF self.last_market_state = None THEN <<>>
    ELSE LET market_state == self.last_market_state[1]
             p == self.parameter
             ratios == market_limit_ratio(p)
         IN IF self.recommendation_type = "Buy"
            THEN LET quote_quantity ==
                        Rat_mul(Rat_mul(quote_balance, self.quantity_ratio),
                                p.buy_quantity_ratio)
                 IN <<market_buy_order(p, market_state,
                                       Rat_mul(quote_quantity, ratios[1])),
                      limit_buy_order(p, market_state,
                                      Rat_mul(quote_quantity, ratios[2]))>>
            ELSE IF self.recommendation_type = "Sell"
            THEN LET base_quantity ==
                        Rat_mul(Rat_mul(base_balance, self.quantity_ratio),
                                p.sell_quantity_ratio)
                 IN <<market_sell_order(p, market_state,
                                        Rat_mul(base_quantity, ratios[1])),
                      limit_sell_order(p, market_state,
                                       Rat_mul(base_quantity, ratios[2]))>>
            ELSE <<>>

(***************************************************************************)
(* nicehash_speculator/main.rs and speculator.rs: the trade simulator.     *)
(* Amount (f32) is an exact ratio in lowest terms with den > 0; Rat(0, 0)  *)
(* is the NaN of 0.0 / 0.0.  A store is the set of its Balance rows.       *)
(***************************************************************************)
RECURSIVE Gcd(_, _)
Gcd(a, b) == IF b = 0 THEN a ELSE Gcd(b, a % b)

Abs(x) == IF x < 0 THEN -x ELSE x

Amount_norm(a) ==
    IF a.den = 0 THEN Rat(0, 0)
    ELSE LET g == Gcd(Abs(a.num), Abs(a.den))
             s == IF a.den < 0 THEN -1 ELSE 1
         IN Rat(s * (a.num \div g), s * (a.den \div g))

Amount(n) == Rat(n, 1)

\* the sum over the least common denominator
Amount_add(a, b) ==
    IF a.den = 0 \/ b.den = 0 THEN Rat(0, 0)
    ELSE LET g == Gcd(a.den, b.den)
         IN Amount_norm(Rat(a.num * (b.den \div g) + b.num * (a.den \div g),
                            (a.den \div g) * b.den))

Amount_sub(a, b) == Amount_add(a, Rat_neg(b))

\* the product, reduced crosswise before it is formed
Amount_mul(a, b) ==
    IF a.den = 0 \/ b.den = 0 THEN Rat(0, 0)
    ELSE LET g == Gcd(Abs(a.num), b.den)
             h == Gcd(Abs(b.num), a.den)
         IN Amount_norm(Rat_mul(Rat(a.num \div g, a.den \div h),
                                Rat(b.num \div h, b.den \div g)))

Amount_div(a, b) ==
    IF b.num = 0 THEN Rat(0, 0)
    ELSE Amount_mul(a, Amount_norm(Rat(b.den, b.num)))

Amount_min(a, b) == IF Rat_lt(b, a) THEN b ELSE a

\* Balance::new
Balance_new(balance_id, currency_id, stamp_id, available, pending) ==
    [balance_id |-> balance_id, currency_id |-> currency_id,
     stamp_id |-> stamp_id, available |-> available, pending |-> pending]

\* the enumerations of a finite set: the orders in which a query without
\* ORDER BY, or the iteration of a HashMap, may yield its elements
Orders(S) ==
    {f \in [1..Cardinality(S) -> S] : \A i, j \in DOMAIN f : f[i] = f[j] => i = j}

MaxOf(S) == CHOOSE x \in S : \A y \in S : y <= x

\* select(max(balance::stamp_id)).first::<Option<IdType>>()
max_stamp_id(rows) ==
    IF rows = {} THEN None ELSE Some(MaxOf({r.stamp_id : r \in rows}))

max_balance_id_ignored(rows) == None

\* select(max(balance::balance_id)).first::<Option<i32>>()
max_balance_id(rows) ==
    IF rows = {} THEN None ELSE Some(MaxOf({r.balance_id : r \in rows}))

\* get_sim_next_balance_id
get_sim_next_balance_id(rows) ==
    LET id == max_balance_id(rows)
    IN (IF id = None THEN 0 ELSE id[1]) + 1

\* insert_into(balance).values(..).execute(): balance_id is the primary key;
\* fails is a failure of the store itself
insert_balance(rows, balance, fails) ==
    IF fails \/ \E r \in rows : r.balance_id = balance.balance_id
    THEN [self |-> rows, ret |-> "Err"]
    ELSE [self |-> rows \cup {balance}, ret |-> "Ok"]

RECURSIVE sync_insert(_, _, _, _)
\* sync_balance, lines 61-66: `?` leaves the loop at the first failing insert
sync_insert(balances, i, sim_rows, fault) ==
    IF i > Len(balances) THEN [self |-> sim_rows, ret |-> "Ok"]
    ELSE LET balance == [balances[i] EXCEPT
                            !.balance_id = get_sim_next_balance_id(sim_rows)]
             res == insert_balance(sim_rows, balance, fault = i)
         IN IF res.ret = "Err" THEN res
            ELSE sync_insert(balances, i + 1, res.self, fault)

\* the rows of the main store at its latest stamp
balances_of_stamp(main_rows, stamp_id) ==
    {r \in main_rows : r.stamp_id = stamp_id}

\* sync_balance; balances is the loaded Vec, in the order the store gave it
sync_balance(balances, sim_rows, fault) ==
    sync_insert(balances, 1, sim_rows, fault)

\* load_latest_sim_balances: the row of the highest stamp of each currency,
\* and a zero balance for a currency without row
load_latest_sim_balances(sim_rows, currencies) ==
    LET latest_balance_stamp_id == max_stamp_id(sim_rows)[1]
        of(c) == {r \in sim_rows : r.currency_id = c}
        latest(c) ==
            CHOOSE r \in of(c) : \A q \in of(c) : q.stamp_id <= r.stamp_id
    IN [c \in currencies |->
            IF of(c) # {} THEN latest(c)
            ELSE Balance_new(get_sim_next_balance_id(sim_rows), c,
                             latest_balance_stamp_id, Amount(0), Amount(0))]

IncompleteMyorder(price, base_quantity, quote_quantity, side, order_type) ==
    [price |-> price, base_quantity |-> base_quantity,
     quote_quantity |-> quote_quantity, side |-> side,
     order_type |-> order_type]

RECURSIVE fill_books(_, _, _, _, _)
\* the loop over the sorted orderbooks of market_buy_order and
\* market_sell_order: <<filled quantity, weighted price sum>>
fill_books(books, i, remaining_quantity, filled_quantity, weighted_price_sum) ==
    IF i > Len(books) THEN <<filled_quantity, weighted_price_sum>>
    ELSE LET q == Amount_min(remaining_quantity, books[i].volume)
             filled == Amount_add(filled_quantity, q)
             weighted ==
                Amount_add(weighted_price_sum, Amount_mul(q, books[i].price))
         IN IF Rat_le(q, Amount(0)) THEN <<filled, weighted>>
            ELSE fill_books(books, i + 1, Amount_sub(remaining_quantity, q),
                            filled, weighted)

books_of_side(orderbooks, side) ==
    SelectSeq(orderbooks, LAMBDA book : book.side = side)

\* speculator.rs market_buy_order
speculator_market_buy_order(market_state, quote_quantity) ==
    LET filled == fill_books(books_of_side(market_state.orderbooks, "Sell"), 1,
                             quote_quantity, Amount(0), Amount(0))
        average_price == Amount_div(filled[2], filled[1])
    IN IF Rat_lt(Amount_div(average_price, market_state.price), Rat(101, 100))
       THEN Some(IncompleteMyorder(average_price,
                    Amount_div(quote_quantity, average_price),
                    quote_quantity, "Buy", "Market"))
       ELSE None

\* speculator.rs market_sell_order
speculator_market_sell_order(market_state, base_quantity) ==
    LET filled == fill_books(books_of_side(market_state.orderbooks, "Buy"), 1,
                             base_quantity, Amount(0), Amount(0))
        average_price == Amount_div(filled[2], filled[1])
    IN IF Rat_gt(Amount_div(average_price, market_state.price), Rat(99, 100))
       THEN Some(IncompleteMyorder(average_price, base_quantity,
                    Amount_mul(base_quantity, average_price),
                    "Sell", "Market"))
       ELSE None

\* speculator.rs limit_buy_order
speculator_limit_buy_order(market_state, quote_quantity) ==
    LET price == Amount_mul(market_state.price, Rat(1001, 1000))
    IN IncompleteMyorder(price, Amount_div(quote_quantity, price),
                         quote_quantity, "Buy", "Limit")

\* speculator.rs limit_sell_order
speculator_limit_sell_order(market_state, base_quantity) ==
    LET price == Amount_mul(market_state.price, Rat(999, 1000))
    IN IncompleteMyorder(price, base_quantity,
                         Amount_mul(base_quantity, price), "Sell", "Limit")

\* a MultipleRsiSpeculator after construct_speculators: side is the result of
\* recommend_side_by_rsis, last_state the last market state it was given
\* (without myorders, main.rs line 199)
MultipleRsiSpeculator(base, quote, side, last_state, spend_buy_ratio, spend_sell_ratio) ==
    [base |-> base, quote |-> quote, side |-> side, last_state |-> last_state,
     spend_buy_ratio |-> spend_buy_ratio,
     spend_sell_ratio |-> spend_sell_ratio]

\* MultipleRsiSpeculator::recommend: the limit order, then the market order
MultipleRsiSpeculator_recommend(self, base_balance, quote_balance) ==
    IF self.side = "Buy"
    THEN LET quote_quantity ==
                Amount_div(Amount_mul(quote_balance.available,
                                      self.spend_buy_ratio), Amount(2))
         IN <<speculator_limit_buy_order(self.last_state, quote_quantity)>>
                \o speculator_market_buy_order(self.last_state, quote_quantity)
    ELSE IF self.side = "Sell"
    THEN LET base_quantity ==
                Amount_div(Amount_mul(base_balance.available,
                                      self.spend_sell_ratio), Amount(2))
         IN <<speculator_limit_sell_order(self.last_state, base_quantity)>>
                \o speculator_market_sell_order(self.last_state, base_quantity)
    ELSE <<>>

one_minus(fee_ratio) == Amount_sub(Amount(1), fee_ratio)

base_diff_without_fee(order, fee_ratio) ==
    IF order.side = "Buy" THEN order.base_quantity
    ELSE Rat_neg(order.base_quantity)

\* simulate_trade, lines 312-315
base_diff(order, fee_ratio) ==
    IF order.side = "Buy"
    THEN Amount_mul(order.base_quantity, one_minus(fee_ratio))
    ELSE Rat_neg(order.base_quantity)

\* simulate_trade, lines 316-319
quote_diff(order, fee_ratio) ==
    IF order.side = "Buy"
    THEN Rat_neg(order.quote_quantity)
    ELSE Amount_mul(order.quote_quantity, one_minus(fee_ratio))

\* simulate_trade, lines 309-328: one order on the working copy
apply_order(current_balances, base, quote, order, fee_ratio) ==
    LET with_base ==
            [current_balances EXCEPT ![base].available =
                Amount_add(@, base_diff(order, fee_ratio))]
    IN [with_base EXCEPT ![quote].available =
            Amount_add(@, quote_diff(order, fee_ratio))]

RECURSIVE apply_orders(_, _, _, _, _, _)
apply_orders(current_balances, base, quote, orders, i, fee_ratio) ==
    IF i > Len(orders) THEN current_balances
    ELSE apply_orders(apply_order(current_balances, base, quote, orders[i],
                                  fee_ratio),
                      base, quote, orders, i + 1, fee_ratio)

RECURSIVE apply_speculators(_, _, _, _)
\* simulate_trade, lines 286-343: a speculator whose base or quote currency
\* has no balance is skipped
apply_speculators(current_balances, speculators, i, fee_ratio) ==
    IF i > Len(speculators) THEN current_balances
    ELSE LET speculator == speculators[i]
             held == /\ speculator.base \in DOMAIN current_balances
                     /\ speculator.quote \in DOMAIN current_balances
             recommendations ==
                MultipleRsiSpeculator_recommend(speculator,
                    current_balances[speculator.base],
                    current_balances[speculator.quote])
             applied ==
                IF held
                THEN apply_orders(current_balances, speculator.base,
                                  speculator.quote, recommendations, 1,
                                  fee_ratio)
                ELSE current_balances
         IN apply_speculators(applied, speculators, i + 1, fee_ratio)

pending_of_working_copy_reset(balance) == Amount(0)

\* simulate_trade, lines 347-349: the pending of the working copy's entry
pending_of_working_copy(balance) == balance.pending

RECURSIVE persist_balances(_, _, _, _, _)
\* simulate_trade, lines 345-366: a failing insert is logged and skipped;
\* currencies is the order in which the HashMap yields its entries
persist_balances(current_balances, currencies, i, sim_rows, stamp_id) ==
    IF i > Len(currencies) THEN sim_rows
    ELSE LET b == current_balances[currencies[i]]
             balance == Balance_new(get_sim_next_balance_id(sim_rows),
                                    currencies[i], stamp_id,
                                    b.available, pending_of_working_copy(b))
         IN persist_balances(current_balances, currencies, i + 1,
                             insert_balance(sim_rows, balance, FALSE).self,
                             stamp_id)

\* simulate_trade
simulate_trade(sim_rows, currency_collection, speculators, fee_ratio, latest_main_stamp, currencies) ==
    LET current_balances ==
            load_latest_sim_balances(sim_rows, currency_collection)
        traded == apply_speculators(current_balances, speculators, 1, fee_ratio)
    IN [self |-> persist_balances(traded, currencies, 1, sim_rows,
                                  latest_main_stamp),
        ret |-> "Ok"]

no_new_timestamp_never(last_sim_stamp_id, latest_main_stamp) == FALSE

\* batch, line 383: Some(id) if id == latest_main_stamp.stamp_id
no_new_timestamp(last_sim_stamp_id, latest_main_stamp) ==
    /\ last_sim_stamp_id # None
    /\ last_sim_stamp_id[1] = latest_main_stamp

\* batch: the arm it takes
batch_arm(sim_rows, latest_main_stamp) ==
    LET last_sim_stamp_id == max_stamp_id(sim_rows)
    IN IF no_new_timestamp(last_sim_stamp_id, latest_main_stamp)
       THEN "no_new_timestamp"
       ELSE IF last_sim_stamp_id # None THEN "simulate_trade"
       ELSE "sync_balance"

\* batch; balances, fault, speculators and currencies are what the stores,
\* the environment and the HashMap give to the arm that runs
batch(sim_rows, latest_main_stamp, currency_collection, balances, fault, speculators, fee_ratio, currencies) ==
    LET arm == batch_arm(sim_rows, latest_main_stamp)
    IN IF arm = "no_new_timestamp"
       THEN [self |-> sim_rows, ret |-> "Err"]
       ELSE IF arm = "simulate_trade"
       THEN simulate_trade(sim_rows, currency_collection, speculators,
                           fee_ratio, latest_main_stamp, currencies)
       ELSE sync_balance(balances, sim_rows, fault)

(***************************************************************************)
(* server/exchange_graph.rs.  rates maps a pair <<base, target>> to a      *)
(* rate, direct_relations a currency to the Vec of its neighbours.         *)
(***************************************************************************)
\* HashMap::insert
map_insert(map, key, value) ==
    [k \in DOMAIN map \cup {key} |-> IF k = key THEN value ELSE map[k]]

\* direct_relations.entry(key).and_modify(|v| v.push(value))
\*                 .or_insert(vec![value])
relation_push(direct_relations, key, value) ==
    map_insert(direct_relations, key,
               IF key \in DOMAIN direct_relations
               THEN Append(direct_relations[key], value)
               ELSE <<value>>)

RECURSIVE from_rates_fold(_, _, _)
\* from_rates, lines 17-30
from_rates_fold(rates, i, self) ==
    IF i > Len(rates) THEN self
    ELSE LET base == rates[i][1]
             target == rates[i][2]
             rate == rates[i][3]
             rate_map == map_insert(map_insert(self.rates, <<base, target>>,
                                               rate),
                                    <<target, base>>,
                                    Amount_div(Amount(1), rate))
             relations == relation_push(relation_push(self.direct_relations,
                                                      base, target),
                                        target, base)
         IN from_rates_fold(rates, i + 1,
                            [rates |-> rate_map,
                             direct_relations |-> relations])

\* ExchangeGraph::from_rates
ExchangeGraph_from_rates(rates) ==
    from_rates_fold(rates, 1, [rates |-> <<>>, direct_relations |-> <<>>])

\* ExchangeGraph::rate_inner
rate_inner(self, base, target) ==
    IF base = target THEN Some(Amount(1))
    ELSE IF <<base, target>> \in DOMAIN self.rates
    THEN Some(self.rates[<<base, target>>])
    ELSE None

neighbours_first_only(self, base) ==
    IF base \in DOMAIN self.direct_relations
    THEN SubSeq(self.direct_relations[base], 1, 1)
    ELSE <<>>

\* rate_between_inner, lines 53-57: direct_relations.get(&base), flattened
neighbours(self, base) ==
    IF base \in DOMAIN self.direct_relations
    THEN self.direct_relations[base]
    ELSE <<>>

\* rate_between_inner, lines 53-61: the unvisited neighbours, collected
\* before the loop runs
intermediates(self, base, appeared_ids) ==
    SelectSeq(neighbours(self, base), LAMBDA n : n \notin appeared_ids)

\* rate_between_inner, lines 69-74: the result is registered for base only
register_result(self, base, target, rate) ==
    [rates |-> map_insert(self.rates, <<base, target>>, rate),
     direct_relations |-> relation_push(self.direct_relations, base, target)]

RECURSIVE rate_between_inner(_, _, _, _)
RECURSIVE search_intermediates(_, _, _, _, _, _)
\* ExchangeGraph::rate_between_inner
rate_between_inner(self, base, target, appeared_ids) ==
    LET rate == rate_inner(self, base, target)
    IN IF rate # None THEN [self |-> self, ret |-> rate]
       ELSE search_intermediates(self, base, target, appeared_ids,
                                 intermediates(self, base, appeared_ids), 1)

\* rate_between_inner, lines 53-81: the loop over the intermediates
search_intermediates(self, base, target, appeared_ids, list, i) ==
    IF i > Len(list) THEN [self |-> self, ret |-> None]
    ELSE IF <<base, list[i]>> \notin DOMAIN self.rates
    THEN search_intermediates(self, base, target, appeared_ids, list, i + 1)
    ELSE LET rate1 == self.rates[<<base, list[i]>>]
             found == rate_between_inner(self, list[i], target,
                                         appeared_ids \cup {list[i]})
         IN IF found.ret # None
            THEN LET rate == Amount_mul(rate1, found.ret[1])
                 IN [self |-> register_result(found.self, base, target, rate),
                     ret |-> Some(rate)]
            ELSE search_intermediates(found.self, base, target, appeared_ids,
                                      list, i + 1)

\* ExchangeGraph::rate_between
ExchangeGraph_rate_between(self, base, target) ==
    rate_between_inner(self, base, target, {})

(***************************************************************************)
(* database/logic.rs.  A database is a record of its tables, each the set  *)
(* of its rows, and of the single row of the next_id table.  fault names   *)
(* the statement of the call that the store fails, if any.                 *)
(***************************************************************************)
\* Currency::new
Currency_new(currency_id, symbol, name) ==
    [currency_id |-> currency_id, symbol |-> symbol, name |-> name]

\* Stamp::new
Stamp_new(stamp_id, timestamp) ==
    [stamp_id |-> stamp_id, timestamp |-> timestamp]

\* Market::new
Market_new(market_id, base_id, quote_id) ==
    [market_id |-> market_id, base_id |-> base_id, quote_id |-> quote_id]

\* Price::new
Price_new(price_id, market_id, stamp_id, amount) ==
    [price_id |-> price_id, market_id |-> market_id, stamp_id |-> stamp_id,
     amount |-> amount]

\* the primary key of a row of each table
primary_key(kind, row) ==
    CASE kind = "currency" -> row.currency_id
      [] kind = "stamp" -> row.stamp_id
      [] kind = "balance" -> row.balance_id
      [] kind = "market" -> row.market_id
      [] kind = "price" -> row.price_id
      [] kind = "orderbook" -> row.orderbook_id
      [] kind = "myorder" -> row.myorder_id

\* diesel::update(next_id::table).set(next_id::kind.eq(next_id::kind + 1))
update_next_id(self, kind, fails) ==
    IF fails THEN [self |-> self, ret |-> "Err"]
    ELSE [self |-> [self EXCEPT !.next_id[kind] = @ + 1], ret |-> "Ok"]

\* diesel::insert_into(kind::table).values(&row)
insert_into(self, kind, row, fails) ==
    IF fails \/ \E r \in self[kind] :
                    primary_key(kind, r) = primary_key(kind, row)
    THEN [self |-> self, ret |-> "Err"]
    ELSE [self |-> [self EXCEPT ![kind] = @ \cup {row}], ret |-> "Ok"]

\* the closure of every add_*: update the next id, then add the row; `?`
\* leaves it at the first failing statement
update_then_insert(self, kind, row, fault) ==
    LET updated == update_next_id(self, kind, fault = "update")
    IN IF updated.ret = "Err" THEN updated
       ELSE insert_into(updated.self, kind, row, fault = "insert")

transaction_without_rollback(self, result) == result

\* conn.transaction(|| ..): commits when the closure returns Ok, rolls back
\* to the database it started with when it returns Err
transaction(self, result) ==
    IF result.ret = "Ok" THEN result ELSE [self |-> self, ret |-> "Err"]

\* the end of every add_*: `?` on the transaction, then Ok(row)
added(self, kind, row, fault) ==
    LET res == transaction(self, update_then_insert(self, kind, row, fault))
    IN [self |-> res.self,
        ret |-> IF res.ret = "Ok" THEN [kind |-> "Ok", row |-> Some(row)]
                ELSE [kind |-> "Err", row |-> None]]

\* the first statement of every add_*, before its transaction:
\* next_id::table.select(next_id::kind).first(conn)
select_next_id(self, kind) == self.next_id[kind]

add_currency_unchecked(self, symbol, name, fault) ==
    added(self, "currency",
          Currency_new(self.next_id.currency, symbol, name), fault)

\* add_currency
add_currency(self, symbol, name, fault) ==
    IF \E c \in self.currency : c.symbol = symbol /\ c.name = name
    THEN [self |-> self, ret |-> [kind |-> "DuplicatedCurrency", row |-> None]]
    ELSE added(self, "currency",
               Currency_new(self.next_id.currency, symbol, name), fault)

\* add_stamp
add_stamp(self, timestamp, fault) ==
    added(self, "stamp", Stamp_new(self.next_id.stamp, timestamp), fault)

add_balance_of_first_stamp(self, currency_id, stamp_id, available, pending, fault) ==
    added(self, "balance",
          Balance_new(self.next_id.balance, currency_id, 1, available,
                      pending), fault)

\* add_balance
add_balance(self, currency_id, stamp_id, available, pending, fault) ==
    added(self, "balance",
          Balance_new(self.next_id.balance, currency_id, stamp_id,
                      available, pending), fault)

\* add_market
add_market(self, base_currency_id, quote_currency_id, fault) ==
    IF \E m \in self.market :
            m.base_id = base_currency_id /\ m.quote_id = quote_currency_id
    THEN [self |-> self, ret |-> [kind |-> "DuplicatedMarket", row |-> None]]
    ELSE added(self, "market",
               Market_new(self.next_id.market, base_currency_id,
                          quote_currency_id), fault)

\* add_price
add_price(self, market_id, stamp_id, amount, fault) ==
    added(self, "price",
          Price_new(self.next_id.price, market_id, stamp_id, amount), fault)

\* add_orderbook
add_orderbook(self, market_id, stamp_id, side, price, volume, fault) ==
    added(self, "orderbook",
          [orderbook_id |-> self.next_id.orderbook, market_id |-> market_id,
           stamp_id |-> stamp_id, side |-> side, price |-> price,
           volume |-> volume], fault)

state_differs_or_not(stored, state) == TRUE

\* add_or_update_myorder, line 287: .filter(myorder::state.ne(state))
state_differs(stored, state) == stored # state

\* add_or_update_myorder, lines 283-294: the UPDATE of the rows of the
\* transaction id whose state differs
update_myorder_state(self, transaction_id, now_stamp_id, state, fails) ==
    IF fails THEN [self |-> self, ret |-> [kind |-> "Err", row |-> None]]
    ELSE [self |->
            [self EXCEPT !.myorder =
                {IF /\ r.transaction_id = transaction_id
                    /\ state_differs(r.state, state)
                 THEN [r EXCEPT !.modified_stamp_id = now_stamp_id,
                                !.state = state]
                 ELSE r : r \in @}],
          ret |-> [kind |-> "Ok", row |-> None]]

\* add_or_update_myorder; price, the quantities, order_type and side are
\* stored as given and never read again
add_or_update_myorder(self, transaction_id, market_id, now_stamp_id, price, side, state, fault) ==
    IF \E r \in self.myorder : r.transaction_id = transaction_id
    THEN update_myorder_state(self, transaction_id, now_stamp_id, state,
                              fault = "update")
    ELSE LET res ==
                added(self, "myorder",
                      [myorder_id |-> self.next_id.myorder,
                       transaction_id |-> transaction_id,
                       market_id |-> market_id,
                       created_stamp_id |-> now_stamp_id,
                       modified_stamp_id |-> now_stamp_id,
                       price |-> price, side |-> side, state |-> state],
                      fault)
         IN [self |-> res.self, ret |-> [kind |-> res.ret.kind, row |-> None]]

(***************************************************************************)
(* Unused objects of a specification keep these values.                    *)
(***************************************************************************)
IdleHistory == CandlestickHistory_new(MaxInterval)
IdleRsiHistory == RsiHistory_new(MaxInterval, 1)
IdleRule == [kind |-> "none"]
IdleAggregation == [kind |-> "none"]
IdleStore == [kind |-> "none"]
IdleGraph == [kind |-> "none"]
IdleDatabase == [kind |-> "none"]
IdleScraper == [kind |-> "none"]
IdleWriters == [kind |-> "none"]

(***************************************************************************)
(* Specification of the candlestick history: any stream of update calls.   *)
(***************************************************************************)
InitChart ==
    /\ \E interval \in Intervals : history = CandlestickHistory_new(interval)
    /\ rsi_history = IdleRsiHistory
    /\ rule = IdleRule
    /\ aggregation = IdleAggregation
    /\ store = IdleStore
    /\ graph = IdleGraph
    /\ database = IdleDatabase
    /\ scraper = IdleScraper
    /\ accepted = <<>>
    /\ call = NoCall
    /\ writers = IdleWriters

HistoryUpdate ==
    \E stamp \in Instants, price \in Prices :
        LET price_stamp == PriceStamp(stamp, price)
            res == CandlestickHistory_update(history, price_stamp)
        IN /\ history' = res.self
           /\ accepted' = IF res.ret.kind = "Err" THEN accepted
                          ELSE Append(accepted, price_stamp)
           /\ call' = [op |-> "update", arg |-> Some(price_stamp), ret |-> res.ret]
           /\ UNCHANGED <<writers, rsi_history, rule, aggregation, store,
                          graph, database, scraper>>

NextChart == HistoryUpdate

SpecChart == InitChart /\ [][NextChart]_vars

(***************************************************************************)
(* Properties of the candlestick indicator and history.                    *)
(***************************************************************************)
interval == history.indicator.interval

\* the bucket [k*I, (k+1)*I) an instant lies in
BucketOf(stamp) == stamp \div interval

\* the accepted price stamps of bucket k, in acceptance order
AcceptedIn(k) == SelectSeq(accepted, LAMBDA ps : BucketOf(ps.stamp) = k)

SeqRange(s) == {s[i] : i \in 1..Len(s)}

\* C1: an update whose instant is less than or equal to the instant of the
\* last accepted PriceStamp returns an error and leaves the buffered price
\* stamps, the just-determined flag and the recorded candlesticks unchanged.
C1_StaleUpdateRejected ==
    [][(/\ call'.op = "update"
        /\ Len(accepted) > 0
        /\ call'.arg[1].stamp <= Last(accepted).stamp)
       => (/\ call'.ret.kind = "Err"
           /\ history'.indicator.remaining_price_stamps
                = history.indicator.remaining_price_stamps
           /\ history'.indicator.is_candlestick_determined_just_now
                = history.indicator.is_candlestick_determined_just_now
           /\ history'.candlesticks = history.candlesticks)]_vars

\* a stale update was rejected after a candlestick had been determined
C1_Witness ==
    /\ call.ret.kind = "Err"
    /\ call.arg[1].stamp <= Last(accepted).stamp
    /\ Len(candlesticks) > 0

\* C2: the open, close, high and low instants of every emitted candlestick
\* lie in one bucket, and the buckets of successive candlesticks strictly
\* increase.
C2_OneBucketPerCandlestick ==
    \A i \in 1..Len(candlesticks) :
        LET stick == candlesticks[i]
            k == BucketOf(stick.open.stamp)
        IN /\ BucketOf(stick.close.stamp) = k
           /\ BucketOf(stick.high.stamp) = k
           /\ BucketOf(stick.low.stamp) = k
           /\ i > 1 => BucketOf(candlesticks[i - 1].open.stamp) < k

\* two candlesticks were emitted, the second one spanning several instants
C2_Witness ==
    /\ Len(candlesticks) >= 2
    /\ candlesticks[2].open.stamp < candlesticks[2].close.stamp

\* C3: every emitted candlestick summarises the accepted price stamps of
\* its bucket: open the earliest, close the latest, high (low) the earliest
\* stamp with the maximum (minimum) price.
C3_CandlestickSummarisesBucket ==
    \A i \in 1..Len(candlesticks) :
        LET stick == candlesticks[i]
            B == AcceptedIn(BucketOf(stick.open.stamp))
        IN /\ Len(B) > 0
           /\ stick.open = B[1]
           /\ stick.close = B[Len(B)]
           /\ stick.high \in SeqRange(B)
           /\ stick.low \in SeqRange(B)
           /\ \A ps \in SeqRange(B) :
                /\ ps.price <= stick.high.price
                /\ ps.price >= stick.low.price
                /\ ps.price = stick.high.price => stick.high.stamp <= ps.stamp
                /\ ps.price = stick.low.price => stick.low.stamp <= ps.stamp
           /\ Len(B) = 1 =>
                /\ stick.close = stick.open
                /\ stick.high = stick.open
                /\ stick.low = stick.open

\* a candlestick of three prices whose maximum price occurs twice
C3_Witness ==
    \E i \in 1..Len(candlesticks) :
        LET B == AcceptedIn(BucketOf(candlesticks[i].open.stamp))
        IN /\ Len(B) >= 3
           /\ \E a, b \in 1..Len(B) :
                /\ a < b
                /\ B[a].price = B[b].price
                /\ \A ps \in SeqRange(B) : ps.price <= B[a].price

\* C4 as stated: the flag is true exactly when the most recent update call,
\* rejected calls included, returned Determined.
C4_FlagIffLastCallDetermined ==
    is_candlestick_determined_just_now <=> call.ret.kind = "Determined"

\* C4, amended: the flag is false before the first update, a rejected update
\* leaves it as it is, and any other update sets it to whether that update
\* returned Determined.
C4_FlagIffLastAcceptedDetermined ==
    /\ ~is_candlestick_determined_just_now
    /\ [][/\ call'.ret.kind = "Err" =>
                history'.indicator.is_candlestick_determined_just_now
                    = history.indicator.is_candlestick_determined_just_now
          /\ call'.ret.kind # "Err" =>
                (history'.indicator.is_candlestick_determined_just_now
                    <=> call'.ret.kind = "Determined")]_vars

\* the flag is still set after a rejected update, and was cleared by an
\* accepted one after a candlestick had been determined
C4_Witness ==
    \/ /\ is_candlestick_determined_just_now
       /\ call.ret.kind = "Err"
    \/ /\ ~is_candlestick_determined_just_now
       /\ call.ret.kind = "NotDeterminedYet"
       /\ Len(candlesticks) > 0

RECURSIVE DeterminedFrom(_, _, _, _)
\* the candlesticks that the updates with the accepted price stamps from
\* number i on return as Determined, appended to sticks in the order they are
\* returned
DeterminedFrom(acc, i, indicator, sticks) ==
    IF i > Len(acc) THEN sticks
    ELSE LET res == CandlestickIndicator_update(indicator, acc[i])
         IN DeterminedFrom(acc, i + 1, res.self,
                           IF res.ret.kind = "Determined"
                           THEN Append(sticks, res.ret.stick[1])
                           ELSE sticks)

\* the candlesticks returned as Determined so far
DeterminedBy(acc) ==
    DeterminedFrom(acc, 1, CandlestickIndicator_new(interval), <<>>)

\* C36: candlesticks() is the sequence of the candlesticks that the updates
\* so far returned as Determined, in the order they were returned: an update
\* that returns Determined(stick) appends stick and nothing else, and an
\* update that is rejected or returns NotDeterminedYet leaves the sequence
\* as it is.
C36_CandlesticksAreTheDetermined ==
    /\ [](candlesticks = DeterminedBy(accepted))
    /\ [][call'.op = "update" =>
            history'.candlesticks
                = IF call'.ret.kind = "Determined"
                  THEN Append(history.candlesticks, call'.ret.stick[1])
                  ELSE history.candlesticks]_vars

\* the second, different candlestick was appended after the first
C36_Witness ==
    /\ call.op = "update"
    /\ call.ret.kind = "Determined"
    /\ Len(candlesticks) = 2
    /\ candlesticks[1] # candlesticks[2]
    /\ candlesticks[2] = call.ret.stick[1]
    /\ Len(accepted) >= 3

(***************************************************************************)
(* Specification of the RSI history: any stream of update calls.           *)
(***************************************************************************)
InitRsi ==
    /\ \E span \in Intervals, n \in RequiredCounts :
            rsi_history = RsiHistory_new(span, n)
    /\ history = IdleHistory
    /\ rule = IdleRule
    /\ aggregation = IdleAggregation
    /\ store = IdleStore
    /\ graph = IdleGraph
    /\ database = IdleDatabase
    /\ scraper = IdleScraper
    /\ accepted = <<>>
    /\ call = NoCall
    /\ writers = IdleWriters

RsiUpdate ==
    \E stamp \in RsiInstants, price \in RsiPrices :
        LET price_stamp == PriceStamp(stamp, price)
            res == RsiHistory_update(rsi_history, price_stamp)
        IN /\ rsi_history' = res.self
           /\ call' = [op |-> "update", arg |-> None, ret |-> res.ret]
           /\ UNCHANGED <<writers, history, rule, aggregation, store, accepted,
                          graph, database, scraper>>

NextRsi == RsiUpdate

SpecRsi == InitRsi /\ [][NextRsi]_vars

(***************************************************************************)
(* Properties of the RSI history.                                          *)
(***************************************************************************)
required_count == rsi_history.candlestick_required_count

\* the candlesticks k-n+1 .. k of a sequence of closed candlesticks
Window(sticks, k, n) == [i \in 1..n |-> sticks[k - n + i]]

OpenPrices(w) == [i \in 1..Len(w) |-> w[i].open.price]
ClosePrices(w) == [i \in 1..Len(w) |-> w[i].close.price]

Max0(x) == IF x > 0 THEN x ELSE 0

RECURSIVE SumUp(_, _)
\* U: the sum of the positive successive differences of the first i prices
SumUp(p, i) ==
    IF i <= 1 THEN 0 ELSE SumUp(p, i - 1) + Max0(p[i] - p[i - 1])

RECURSIVE SumDown(_, _)
\* D: the sum of the magnitudes of the negative successive differences
SumDown(p, i) ==
    IF i <= 1 THEN 0 ELSE SumDown(p, i - 1) + Max0(p[i - 1] - p[i])

U(p) == SumUp(p, Len(p))
D(p) == SumDown(p, Len(p))

\* the ratio r equals u / (u + d)
IsRatio(r, u, d) == r.den # 0 /\ u + d # 0 /\ r.num * (u + d) = u * r.den

\* an RSI is defined for the window of n candlesticks ending at index k
DefinedAt(sticks, k, n) ==
    /\ k >= n
    /\ LET p == OpenPrices(Window(sticks, k, n)) IN U(p) + D(p) > 0

\* the update just made closed a candlestick
ClosesCandlestick ==
    Len(rsi_history'.candlesticks) = Len(rsi_history.candlesticks) + 1

\* the last accepted update closed a candlestick
JustClosed ==
    /\ Len(rsi_history.candlesticks) > 0
    /\ Len(rsi_history.incomplete_history.prices) = 1

\* C5 as stated: rsis() has one entry per closed candlestick.
C5_RsisAlignedWithCandlesticks ==
    Len(rsis) = Len(rsi_history.candlesticks)

\* C5, amended: rsis() has one entry per closed candlestick for which an RSI
\* was defined when it closed (at least N closed, window not flat), and so
\* never more entries than closed candlesticks.
C5_RsisCountDefinedOnly ==
    /\ Len(rsis) <= Len(rsi_history.candlesticks)
    /\ Len(rsis) = Cardinality(
            {k \in 1..Len(rsi_history.candlesticks) :
                DefinedAt(rsi_history.candlesticks, k, required_count)})

\* candlesticks closed before and after the first defined RSI, and one
\* closed with a flat window
C5_Witness ==
    /\ required_count >= 2
    /\ Len(rsis) >= 1
    /\ Len(rsi_history.candlesticks) >= Len(rsis) + 2

\* C6: every defined RSI value lies in the closed range [0, 1].
C6_RsiInUnitRange ==
    \A i \in 1..Len(rsis) :
        LET r == rsis[i].rsi
        IN \/ r.den > 0 /\ 0 <= r.num /\ r.num <= r.den
           \/ r.den < 0 /\ r.den <= r.num /\ r.num <= 0

\* an RSI strictly between 0 and 1 was recorded
C6_Witness ==
    \E i \in 1..Len(rsis) : 0 < rsis[i].rsi.num /\ rsis[i].rsi.num < rsis[i].rsi.den

\* C7: an update that closes a candlestick succeeds, and it records an RSI
\* exactly when at least N candlesticks have closed and U + D > 0 over the
\* window of the last N; otherwise nothing is recorded.
C7_RsiDefinedIffWindowMoves ==
    [][ClosesCandlestick =>
        /\ call'.ret.kind = "Ok"
        /\ IF DefinedAt(rsi_history'.candlesticks,
                        Len(rsi_history'.candlesticks), required_count)
           THEN /\ Len(rsis') = Len(rsis) + 1
                /\ rsi_history'.is_all_candlestick_determined
           ELSE /\ rsis' = rsis
                /\ ~rsi_history'.is_all_candlestick_determined]_vars

\* a candlestick closed on a flat window after an RSI had been recorded
C7_Witness ==
    /\ JustClosed
    /\ required_count >= 2
    /\ Len(rsis) >= 1
    /\ Len(rsi_history.candlesticks) >= required_count
    /\ ~DefinedAt(rsi_history.candlesticks,
                  Len(rsi_history.candlesticks), required_count)
    /\ ~rsi_history.is_all_candlestick_determined

\* C8 as stated: a recorded RsiStamp is U/(U+D) over the close prices of the
\* last N closed candlesticks, with the open instant of the first and the
\* close instant of the last of them.
C8_RsiOfClosePrices ==
    [][(ClosesCandlestick /\ Len(rsis') = Len(rsis) + 1) =>
        LET w == Window(rsi_history'.candlesticks,
                        Len(rsi_history'.candlesticks), required_count)
            p == ClosePrices(w)
            r == Last(rsis')
        IN /\ IsRatio(r.rsi, U(p), D(p))
           /\ r.open = w[1].open.stamp
           /\ r.close = w[Len(w)].close.stamp]_vars

\* C8, amended: a recorded RsiStamp is U/(U+D) over the open prices of the
\* last N closed candlesticks, with the open instant of the first and the
\* open instant of the last of them.
C8_RsiOfOpenPrices ==
    [][(ClosesCandlestick /\ Len(rsis') = Len(rsis) + 1) =>
        LET w == Window(rsi_history'.candlesticks,
                        Len(rsi_history'.candlesticks), required_count)
            p == OpenPrices(w)
            r == Last(rsis')
        IN /\ IsRatio(r.rsi, U(p), D(p))
           /\ r.open = w[1].open.stamp
           /\ r.close = w[Len(w)].open.stamp]_vars

\* an RSI was just recorded over a window whose last candlestick closed
\* later, and at another price, than it opened
C8_Witness ==
    /\ JustClosed
    /\ rsi_history.is_all_candlestick_determined
    /\ LET last == Last(rsi_history.candlesticks)
       IN /\ last.open.stamp < last.close.stamp
          /\ last.open.price # last.close.price
          /\ Last(rsis).close = last.open.stamp

(***************************************************************************)
(* Specification of one rule: any stream of update_market_state calls.     *)
(***************************************************************************)
OrderbookLists ==
    {<<>>} \cup {<<[market_id |-> m]>> : m \in MarketIds}

MyOrderLists ==
    {<<>>} \cup {<<[market_id |-> m, state |-> st]>> :
                    m \in MarketIds, st \in OrderStates}

MarketStates ==
    {MarketState(t, m, a, o, y) :
        t \in RuleInstants, m \in MarketIds, a \in Prices,
        o \in OrderbookLists, y \in MyOrderLists}

\* only the RSI-divergence rule calls the indicator of the ta crate
OutputsOf(self) ==
    IF self.kind = "rsi_divergence" THEN RelativeStrengthIndex_outputs
    ELSE {0}

InitRule ==
    /\ \/ \E side \in OrderSides : rule = FixedRule_new(Market(1), side)
       \/ \E i \in RuleIntervals, n \in RuleCounts :
            rule = RsiCrossRule_new(Market(1),
                        RsiCrossParameter_new(i, n, RsiPercent(30),
                            RsiPercent(70), RsiPercent(80), RsiPercent(20)))
       \/ \E i \in RuleIntervals, n \in RuleCounts :
            rule = RsiDivergenceRule_new(Market(1),
                        RsiDivergenceParameter_new(i, n,
                            [start |-> 1, end |-> 3], 70, 30))
    /\ history = IdleHistory
    /\ rsi_history = IdleRsiHistory
    /\ aggregation = IdleAggregation
    /\ store = IdleStore
    /\ graph = IdleGraph
    /\ database = IdleDatabase
    /\ scraper = IdleScraper
    /\ accepted = <<>>
    /\ call = NoCall
    /\ writers = IdleWriters

\* a call is made unless it would be accepted as the call after MaxAccepted
UpdateMarketState ==
    \E market_state \in MarketStates, output \in OutputsOf(rule) :
        LET res == Rule_update_market_state(rule, market_state, output)
        IN /\ res.ret.kind = "Ok" => Len(accepted) < MaxAccepted
           /\ rule' = res.self
           /\ accepted' = IF res.ret.kind = "Ok"
                          THEN Append(accepted,
                                      PriceStamp(market_state.stamp.timestamp,
                                                 market_state.price.amount))
                          ELSE accepted
           /\ call' = [op |-> "update_market_state", arg |-> None,
                       ret |-> res.ret]
           /\ UNCHANGED <<writers, history, rsi_history, aggregation, store,
                          graph, database, scraper>>

NextRule == UpdateMarketState

SpecRule == InitRule /\ [][NextRule]_vars

(***************************************************************************)
(* Properties of the rules.                                                *)
(***************************************************************************)
\* the price, an orderbook row or a my-order of ms is of another market
WrongMarket(ms) ==
    \/ ms.price.market_id # rule.market.market_id
    \/ \E i \in 1..Len(ms.orderbooks) :
            ms.orderbooks[i].market_id # rule.market.market_id
    \/ \E i \in 1..Len(ms.myorders) :
            ms.myorders[i].market_id # rule.market.market_id

\* C9: in every state a rule can reach, update_market_state called with a
\* state of another market returns MarketConstraint and leaves the rule
\* (retained market states, indicator history) as it is.
C9_WrongMarketRejected ==
    \A ms \in MarketStates, output \in OutputsOf(rule) :
        WrongMarket(ms) =>
            LET res == Rule_update_market_state(rule, ms, output)
            IN /\ res.ret = MarketConstraint
               /\ res.self = rule

\* a state of another market was rejected by an RSI rule that retains states
C9_Witness ==
    /\ call.ret = MarketConstraint
    /\ rule.kind # "fixed"
    /\ Len(rule.market_states) >= 2

\* C10: for every kind of rule, once a state has been accepted, a state of
\* the right market whose instant is not later than the accepted one is
\* answered with StampConstraint and is not accepted.
C10_StaleStampRejected ==
    \A ms \in MarketStates, output \in OutputsOf(rule) :
        (/\ ~WrongMarket(ms)
         /\ Len(accepted) > 0
         /\ ms.stamp.timestamp <= Last(accepted).stamp) =>
            LET res == Rule_update_market_state(rule, ms, output)
            IN /\ res.ret = StampConstraint
               /\ res.self = rule

\* C28: every update_market_state call, accepted or rejected, leaves a Fixed
\* rule as it was configured, and after it recommend() is of the configured
\* side with the reason "Based on fixed trade rule", and
\* duration_requirement() is None.
C28_FixedRuleIsConstant ==
    [][rule.kind = "fixed" =>
        /\ rule' = rule
        /\ Rule_recommend(rule').variant = rule.side
        /\ FixedRuleRecommendation_reason(Rule_recommend(rule'))
                = "Based on fixed trade rule"
        /\ FixedRule_duration_requirement(rule') = None]_vars

\* a rule fixed to Sell accepted two states and then rejected a state of
\* another market
C28_Witness ==
    /\ rule.kind = "fixed"
    /\ rule.side = "Sell"
    /\ Len(accepted) >= 2
    /\ call.ret = MarketConstraint
    /\ Rule_recommend(rule).variant = "Sell"

(***************************************************************************)
(* Specification of an RSI rule and its recommendation: any stream of      *)
(* update_market_state calls with states of the rule's market; recommend() *)
(* is a function of the state reached.                                     *)
(***************************************************************************)
\* (buy, sell, upper_pending, lower_pending) of the RSI-cross rule, percent
CrossThresholds == {<<30, 70, 80, 20>>, <<50, 50, 80, 20>>, <<30, 70, 100, 0>>}

\* candlestick_maxima_interval of the RSI-divergence rule
DivergenceMaxima == {[start |-> 1, end |-> 3]}

\* candlestick_interval of the RSI-divergence rule
DivergenceIntervals == {1, 2}

\* (upper_divergence_trigger, lower_divergence_trigger), percent
DivergenceTriggers == {<<30, 70>>}

RecMarketStates ==
    {MarketState(t, 1, a, <<>>, <<>>) : t \in RecInstants, a \in RecPrices}

InitRecommend ==
    /\ \/ \E i \in RuleIntervals, n \in RecCounts, th \in CrossThresholds :
            rule = RsiCrossRule_new(Market(1),
                        RsiCrossParameter_new(i, n, RsiPercent(th[1]),
                            RsiPercent(th[2]), RsiPercent(th[3]),
                            RsiPercent(th[4])))
       \/ \E i \in DivergenceIntervals, m \in DivergenceMaxima,
              tr \in DivergenceTriggers :
            rule = RsiDivergenceRule_new(Market(1),
                        RsiDivergenceParameter_new(i, MaxRecCount, m,
                                                   tr[1], tr[2]))
    /\ history = IdleHistory
    /\ rsi_history = IdleRsiHistory
    /\ aggregation = IdleAggregation
    /\ store = IdleStore
    /\ graph = IdleGraph
    /\ database = IdleDatabase
    /\ scraper = IdleScraper
    /\ accepted = <<>>
    /\ call = NoCall
    /\ writers = IdleWriters

\* the outputs of the ta crate's indicator, with one value between the
\* extremes so that the RSI of a candlestick can lie below a peak
RecOutputsOf(self) ==
    IF self.kind = "rsi_divergence"
    THEN RelativeStrengthIndex_outputs \cup {50}
    ELSE {0}

RecommendUpdate ==
    \E market_state \in RecMarketStates, output \in RecOutputsOf(rule) :
        LET res == Rule_update_market_state(rule, market_state, output)
        IN /\ rule' = res.self
           /\ accepted' = IF res.ret.kind = "Ok"
                          THEN Append(accepted,
                                      PriceStamp(market_state.stamp.timestamp,
                                                 market_state.price.amount))
                          ELSE accepted
           /\ call' = [op |-> "update_market_state", arg |-> None,
                       ret |-> res.ret]
           /\ UNCHANGED <<writers, history, rsi_history, aggregation, store,
                          graph, database, scraper>>

NextRecommend == RecommendUpdate

SpecRecommend == InitRecommend /\ [][NextRecommend]_vars

(***************************************************************************)
(* Properties of the recommendations of the RSI rules.                     *)
(***************************************************************************)
IsCross == rule.kind = "rsi_cross"

\* the most recently accepted update closed a candlestick: its instant lies
\* in another bucket than the instant of the update accepted before it
LastAcceptedClosed ==
    /\ Len(accepted) >= 2
    /\ accepted[Len(accepted) - 1].stamp \div rule.parameter.candlestick_interval
         # Last(accepted).stamp \div rule.parameter.candlestick_interval

\* RecommendationType of recommend() in the current state
Recommended == recommendation_type(Rule_recommend(rule))

\* the entries of rsis(), and the values of its defined entries
CrossEntries == rule.rsi_history.rsis

DefinedRsis ==
    LET defined == SelectSeq(CrossEntries, LAMBDA e : e # None)
    IN [i \in 1..Len(defined) |-> defined[i][1].rsi]

\* the last two entries of rsis()
PrevEntry == CrossEntries[Len(CrossEntries) - 1]
CurrEntry == CrossEntries[Len(CrossEntries)]

\* the conditions of 4.4.2 on two RSI values, by cross-multiplication
BuyCross(prev, curr) ==
    /\ prev.num * rule.parameter.buy.den < rule.parameter.buy.num * prev.den
    /\ curr.num * rule.parameter.buy.den >= rule.parameter.buy.num * curr.den

SellCross(prev, curr) ==
    /\ prev.num * rule.parameter.sell.den > rule.parameter.sell.num * prev.den
    /\ curr.num * rule.parameter.sell.den <= rule.parameter.sell.num * curr.den

OutOfBand(curr) ==
    \/ curr.num * rule.parameter.upper_pending.den
            > rule.parameter.upper_pending.num * curr.den
    \/ curr.num * rule.parameter.lower_pending.den
            < rule.parameter.lower_pending.num * curr.den

\* Buy on a Buy cross, otherwise Sell on a Sell cross, otherwise Neutral
CrossDecision(prev, curr) ==
    IF BuyCross(prev, curr) THEN "Buy"
    ELSE IF SellCross(prev, curr) THEN "Sell"
    ELSE "Neutral"

\* C11 as stated: after an update that closed a candlestick, a current RSI
\* outside [lower_pending, upper_pending] gives Pending whatever the
\* previous RSI is (the Pending checks come first).
C11_PendingBeforeCross ==
    (/\ IsCross
     /\ LastAcceptedClosed
     /\ Len(CrossEntries) >= 1
     /\ Last(CrossEntries) # None
     /\ OutOfBand(Last(CrossEntries)[1].rsi)) => Recommended = "Pending"

\* C11, amended: after an update that closed a candlestick, with at least
\* two entries in the history, a current RSI outside [lower_pending,
\* upper_pending] gives Pending unless the previous RSI is defined and the
\* Buy cross or the Sell cross holds, which are checked first and give Buy
\* or Sell.
C11_PendingAfterCross ==
    (/\ IsCross
     /\ LastAcceptedClosed
     /\ Len(CrossEntries) >= 2
     /\ CurrEntry # None
     /\ OutOfBand(CurrEntry[1].rsi)) =>
        Recommended = IF PrevEntry = None THEN "Pending"
                      ELSE IF BuyCross(PrevEntry[1].rsi, CurrEntry[1].rsi)
                      THEN "Buy"
                      ELSE IF SellCross(PrevEntry[1].rsi, CurrEntry[1].rsi)
                      THEN "Sell"
                      ELSE "Pending"

\* Pending was recommended over a defined previous RSI that differs from the
\* current one
C11_Witness ==
    /\ IsCross
    /\ LastAcceptedClosed
    /\ Len(CrossEntries) >= 2
    /\ CurrEntry # None
    /\ PrevEntry # None
    /\ PrevEntry[1].rsi # CurrEntry[1].rsi
    /\ OutOfBand(CurrEntry[1].rsi)
    /\ Recommended = "Pending"

\* C12 as stated: prev and curr are the last two defined values of the
\* history, undefined entries skipped.
C12_CrossOfLastTwoDefined ==
    (/\ IsCross
     /\ LastAcceptedClosed
     /\ Len(DefinedRsis) >= 2
     /\ ~OutOfBand(Last(DefinedRsis))) =>
        Recommended = CrossDecision(DefinedRsis[Len(DefinedRsis) - 1],
                                    Last(DefinedRsis))

\* C12, amended: after an update that closed a candlestick, with prev and
\* curr the last two entries of the history, both defined, and
\* lower_pending <= curr <= upper_pending: Buy when prev < B and curr >= B,
\* otherwise Sell when prev > S and curr <= S, otherwise Neutral.
C12_CrossOfLastTwoEntries ==
    (/\ IsCross
     /\ LastAcceptedClosed
     /\ Len(CrossEntries) >= 2
     /\ PrevEntry # None
     /\ CurrEntry # None
     /\ ~OutOfBand(CurrEntry[1].rsi)) =>
        Recommended = CrossDecision(PrevEntry[1].rsi, CurrEntry[1].rsi)

\* Buy was recommended on a current RSI strictly between 0 and 1
C12_Witness ==
    /\ IsCross
    /\ LastAcceptedClosed
    /\ Len(CrossEntries) >= 2
    /\ PrevEntry # None
    /\ CurrEntry # None
    /\ 0 < CurrEntry[1].rsi.num
    /\ CurrEntry[1].rsi.num < CurrEntry[1].rsi.den
    /\ ~OutOfBand(CurrEntry[1].rsi)
    /\ Recommended = "Buy"

\* C13: an RSI-cross or RSI-divergence rule recommends Neutral whenever the
\* most recently accepted update did not close a candlestick, so that every
\* closing is followed by at most one update with another recommendation.
C13_NeutralUnlessJustClosed ==
    ~LastAcceptedClosed => Recommended = "Neutral"

\* the current RSI of the RSI-cross rule lies outside [lower_pending,
\* upper_pending], which gave another recommendation when its candlestick
\* closed, and the update accepted last did not close a candlestick
C13_Witness ==
    /\ IsCross
    /\ Len(accepted) >= 3
    /\ ~LastAcceptedClosed
    /\ Len(CrossEntries) >= 2
    /\ CurrEntry # None
    /\ OutOfBand(CurrEntry[1].rsi)
    /\ Recommended = "Neutral"

\* the decision of recommend() on two defined RSI values, in the order of
\* its checks
FullDecision(prev, curr) ==
    IF BuyCross(prev, curr) THEN "Buy"
    ELSE IF SellCross(prev, curr) THEN "Sell"
    ELSE IF OutOfBand(curr) THEN "Pending"
    ELSE "Neutral"

IsDivergence == rule.kind = "rsi_divergence"

\* the determined (candlestick, RSI) pairs of the history, oldest first
DefinedPairs ==
    LET defined == SelectSeq(rule.rsi_history.history, LAMBDA e : e # None)
    IN [i \in 1..Len(defined) |-> defined[i][1]]

\* the rule passed the gate on the candlestick determined just now
GatePassed ==
    IsDivergence /\ ~last_entry_undetermined(rule.rsi_history.history)

\* the signals of 4.4.3 for a last pair and the peaks of the candidates
SellSignal(last, upper) ==
    /\ rule.parameter.upper_divergence_trigger < last[2]
    /\ last[2] < upper[2]
    /\ last[1].close > upper[1].close

BuySignal(last, lower) ==
    /\ rule.parameter.lower_divergence_trigger > last[2]
    /\ last[2] > lower[2]
    /\ last[1].close < lower[1].close

\* Sell on a Sell signal, otherwise Buy on a Buy signal, otherwise Neutral;
\* Neutral without peak candidates
DivergenceDecision(last) ==
    LET candidates == peak_candidates(rule)
    IN IF Len(candidates) = 0 THEN "Neutral"
       ELSE IF SellSignal(last, rsi_upper_peak(candidates)) THEN "Sell"
       ELSE IF BuySignal(last, rsi_lower_peak(candidates)) THEN "Buy"
       ELSE "Neutral"

\* C29: a rule that passed the gate recommends Sell when the last determined
\* candlestick and its RSI give the Sell signal against the upper peak,
\* otherwise Buy when they give the Buy signal against the lower peak,
\* otherwise Neutral, and Neutral when there is no peak candidate.
C29_DivergenceDecision ==
    GatePassed =>
        Recommended = IF Len(DefinedPairs) = 0 THEN "Neutral"
                      ELSE DivergenceDecision(Last(DefinedPairs))

\* the decision table of 4.4.3 on the pair that recommend() compares
DecisionOnComparedPair ==
    GatePassed =>
        Recommended = IF Len(peak_candidates(rule)) = 0 THEN "Neutral"
                      ELSE DivergenceDecision(last_of(peak_candidates(rule)))

\* C30: for a rule that passed the gate and has peak candidates, the pair
\* that recommend() compares with the peaks is the most recent determined
\* pair of the whole history.
C30_LastIsMostRecent ==
    (GatePassed /\ Len(peak_candidates(rule)) > 0) =>
        last_of(peak_candidates(rule)) = Last(DefinedPairs)

\* as long as the history holds no more determined entries than the end of
\* the candidate slice, the compared pair is the most recent one
LastIsMostRecentUpToEnd ==
    (/\ GatePassed
     /\ Len(peak_candidates(rule)) > 0
     /\ Len(DefinedPairs) <= rule.parameter.candlestick_maxima_interval.end) =>
        last_of(peak_candidates(rule)) = Last(DefinedPairs)

\* the last of the accepted updates acc closed a candlestick of the rule
ClosedBy(acc) ==
    /\ Len(acc) >= 2
    /\ acc[Len(acc) - 1].stamp \div rule.parameter.candlestick_interval
         # Last(acc).stamp \div rule.parameter.candlestick_interval

\* the update just made was accepted by the RSI-divergence rule
DivergenceAccepted == IsDivergence /\ accepted' # accepted

\* C32 as stated: an accepted update of the indicator history that does not
\* close a candlestick leaves the history as it is, and one that closes a
\* candlestick appends exactly one entry.
C32_NothingPushedUnlessClosed ==
    [][DivergenceAccepted =>
        IF ClosedBy(accepted')
        THEN /\ Len(rule'.rsi_history.history)
                    = Len(rule.rsi_history.history) + 1
             /\ SubSeq(rule'.rsi_history.history, 1,
                       Len(rule.rsi_history.history))
                    = rule.rsi_history.history
        ELSE rule'.rsi_history.history = rule.rsi_history.history]_vars

\* C32, amended: every accepted update of the indicator history appends
\* exactly one entry and leaves the earlier entries as they are: an
\* undefined entry when the update does not close a candlestick, the
\* candlestick with the output of the indicator when it closes one; a
\* rejected update appends nothing.
C32_OneEntryPerAcceptedUpdate ==
    [][IsDivergence =>
        IF accepted' # accepted
        THEN /\ Len(rule'.rsi_history.history)
                    = Len(rule.rsi_history.history) + 1
             /\ SubSeq(rule'.rsi_history.history, 1,
                       Len(rule.rsi_history.history))
                    = rule.rsi_history.history
             /\ Last(rule'.rsi_history.history) # None
                    <=> ClosedBy(accepted')
             /\ ClosedBy(accepted') =>
                    Last(rule'.rsi_history.history)[1][1].close
                        = accepted[Len(accepted)].price
        ELSE rule'.rsi_history.history = rule.rsi_history.history]_vars

\* the history holds a candlestick and, after it, the undefined entry of an
\* accepted update that closed nothing
C32_Witness ==
    /\ IsDivergence
    /\ Len(accepted) >= 3
    /\ ~ClosedBy(accepted)
    /\ Len(rule.rsi_history.history) = Len(accepted)
    /\ Last(rule.rsi_history.history) = None
    /\ \E i \in 1..Len(rule.rsi_history.history) :
            rule.rsi_history.history[i] # None

(***************************************************************************)
(* Specification of a trade aggregation: any stream of update_market_state *)
(* calls; recommend() and recommend_orders() are functions of the state    *)
(* reached.                                                                *)
(***************************************************************************)
\* the rules an aggregation is built from, each with its weight
TradeWeightedRules ==
    {WeightedRule(FixedRule_new(Market(1), "Buy"), 2),
     WeightedRule(FixedRule_new(Market(1), "Buy"), 0),
     WeightedRule(FixedRule_new(Market(1), "Sell"), 1),
     WeightedRule(RsiCrossRule_new(Market(1),
                    RsiCrossParameter_new(1, 2, RsiPercent(30),
                        RsiPercent(70), RsiPercent(80), RsiPercent(20))), 1)}

RECURSIVE SeqsUpTo(_, _)
\* the sequences of at most n elements of S
SeqsUpTo(S, n) ==
    IF n = 0 THEN {<<>>}
    ELSE LET shorter == SeqsUpTo(S, n - 1)
         IN shorter \cup {Append(q, x) : q \in shorter, x \in S}

\* buy_trigger, sell_trigger, buy_quantity_ratio, sell_quantity_ratio, and
\* market_ratio, limit_ratio: an even split between the market and the limit
\* order, and a split of 1 to 1/2, whose sum is not 1
TradeParameters ==
    {TradeParameter(Rat(1, 4), Rat(1, 4), Rat(1, 2), Rat(1, 1),
                    Rat(1, 2), Rat(1, 2), Rat(1, 1), Rat(1, 1),
                    Rat(1, 1), Rat(1, 1)),
     TradeParameter(Rat(1, 3), Rat(1, 2), Rat(1, 1), Rat(1, 2),
                    Rat(1, 1), Rat(1, 2), Rat(1, 1), Rat(1, 1),
                    Rat(1, 1), Rat(1, 1))}

TradeMarketStates ==
    {MarketState(t, m, a, <<>>, <<>>) :
        t \in TradeInstants, m \in MarketIds, a \in TradePrices}

InitTrade ==
    /\ \E parameter \in TradeParameters,
          weighted_rules \in SeqsUpTo(TradeWeightedRules, MaxTradeRules) :
            aggregation = TradeAggregation_new(Market(1), parameter,
                                               weighted_rules)
    /\ history = IdleHistory
    /\ rsi_history = IdleRsiHistory
    /\ rule = IdleRule
    /\ store = IdleStore
    /\ graph = IdleGraph
    /\ database = IdleDatabase
    /\ scraper = IdleScraper
    /\ accepted = <<>>
    /\ call = NoCall
    /\ writers = IdleWriters

AggregationUpdate ==
    \E market_state \in TradeMarketStates :
        LET res == TradeAggregation_update_market_state(aggregation,
                                                        market_state)
        IN /\ aggregation' = res.self
           /\ call' = [op |-> "update_market_state", arg |-> None,
                       ret |-> res.ret]
           /\ UNCHANGED <<writers, history, rsi_history, rule, store, accepted,
                          graph, database, scraper>>

NextTrade == AggregationUpdate

SpecTrade == InitTrade /\ [][NextTrade]_vars

(***************************************************************************)
(* Properties of the trade aggregation.                                    *)
(***************************************************************************)
\* the available amounts of the balances handed to recommend_orders
Balances == {Rat(b, 1) : b \in 0..MaxBalance}

\* the RecommendationType of the i-th rule of the aggregation
TypeOfRule(i) ==
    recommendation_type(Rule_recommend(aggregation.weighted_rules[i].rule))

RECURSIVE WeightOfTypes(_, _)
\* the sum of the weights of the first n rules whose type is in types
WeightOfTypes(types, n) ==
    IF n = 0 THEN 0
    ELSE WeightOfTypes(types, n - 1)
            + (IF TypeOfRule(n) \in types
               THEN aggregation.weighted_rules[n].weight ELSE 0)

RuleCount == Len(aggregation.weighted_rules)

\* W: the weights of the rules that vote; S: the weighted sum of the votes
VoteW == WeightOfTypes({"Buy", "Sell", "Pending"}, RuleCount)
VoteS == WeightOfTypes({"Buy"}, RuleCount) - WeightOfTypes({"Sell"}, RuleCount)

AllNeutral == \A i \in 1..RuleCount : TypeOfRule(i) = "Neutral"

\* C15: when every rule recommends Neutral, also when there is no rule, the
\* aggregation recommends Pending with quantity factor 0, and
\* recommend_orders returns no order for any pair of balances.
C15_AllNeutralGivesPending ==
    AllNeutral =>
        LET r == TradeAggregation_recommend(aggregation)
        IN /\ r.recommendation_type = "Pending"
           /\ r.quantity_ratio.num = 0
           /\ r.quantity_ratio.den # 0
           /\ \A base_balance \in Balances, quote_balance \in Balances :
                recommend_orders(r, base_balance, quote_balance) = <<>>

\* an RSI-cross rule that has closed a candlestick recommends Neutral, as
\* every other rule does, and the aggregation holds a market state
C15_Witness ==
    /\ AllNeutral
    /\ RuleCount >= 1
    /\ aggregation.last_market_state # None
    /\ \E i \in 1..RuleCount :
            /\ aggregation.weighted_rules[i].rule.kind = "rsi_cross"
            /\ Len(aggregation.weighted_rules[i].rule.rsi_history.rsis) >= 1

\* C16: with W the weights of the rules that do not vote Neutral and S the
\* weighted sum of their votes (Buy +1, Sell -1, Pending 0), recommend() is
\* Buy with factor |S/W| * buy_quantity_ratio exactly when S/W > buy_trigger,
\* Sell with factor |S/W| * sell_quantity_ratio exactly when
\* S/W < -sell_trigger, and Pending with factor 0 otherwise (also when W = 0).
C16_WeightedMeanDecides ==
    LET r == TradeAggregation_recommend(aggregation)
        p == aggregation.parameter
        absS == IF VoteS < 0 THEN -VoteS ELSE VoteS
        buy == /\ VoteW > 0
               /\ VoteS * p.buy_trigger.den > p.buy_trigger.num * VoteW
        sell == /\ VoteW > 0
                /\ VoteS * p.sell_trigger.den < -p.sell_trigger.num * VoteW
    IN /\ r.recommendation_type
            = IF buy THEN "Buy" ELSE IF sell THEN "Sell" ELSE "Pending"
       /\ r.quantity_ratio.den # 0
       /\ buy => r.quantity_ratio.num * (VoteW * p.buy_quantity_ratio.den)
                    = absS * p.buy_quantity_ratio.num * r.quantity_ratio.den
       /\ (~buy /\ sell) =>
                r.quantity_ratio.num * (VoteW * p.sell_quantity_ratio.den)
                    = absS * p.sell_quantity_ratio.num * r.quantity_ratio.den
       /\ (~buy /\ ~sell) => r.quantity_ratio.num = 0

\* Buy is recommended while a rule of positive weight votes Pending
C16_Witness ==
    /\ TradeAggregation_recommend(aggregation).recommendation_type = "Buy"
    /\ \E i \in 1..RuleCount :
            /\ TypeOfRule(i) = "Pending"
            /\ aggregation.weighted_rules[i].weight > 0

\* the result of the i-th rule's own update_market_state on a market state
RuleUpdate(i, market_state) ==
    Rule_update_market_state(aggregation.weighted_rules[i].rule,
                             market_state, 0)

\* C17: update_market_state hands the market state to each rule, in rule
\* order and whatever the rules before it returned; it returns Ok exactly
\* when no rule returned an error, and otherwise the errors of all failing
\* rules.
C17_EveryRuleUpdated ==
    [][call'.op = "update_market_state" =>
        LET market_state == aggregation'.last_market_state[1]
            n == Len(aggregation.weighted_rules)
            rets == [i \in 1..n |-> RuleUpdate(i, market_state).ret.kind]
        IN /\ Len(aggregation'.weighted_rules) = n
           /\ \A i \in 1..n :
                /\ aggregation'.weighted_rules[i].rule
                        = RuleUpdate(i, market_state).self
                /\ aggregation'.weighted_rules[i].weight
                        = aggregation.weighted_rules[i].weight
           /\ call'.ret.errors = SelectSeq(rets, LAMBDA k : k # "Ok")
           /\ call'.ret.kind = "Ok" <=> \A i \in 1..n : rets[i] = "Ok"]_vars

\* an update of a state of another market was answered with the errors of
\* both rules, one of them an RSI-cross rule that retains states
C17_Witness ==
    /\ call.op = "update_market_state"
    /\ call.ret.kind = "Err"
    /\ Len(call.ret.errors) = 2
    /\ \E i \in 1..RuleCount :
            /\ aggregation.weighted_rules[i].rule.kind = "rsi_cross"
            /\ Len(aggregation.weighted_rules[i].rule.market_states) >= 1

\* the orders recommended in the state reached, for a pair of balances, when
\* the aggregation holds last_market_state
OrdersPricedFrom(self, last_market_state, base_balance, quote_balance) ==
    recommend_orders(
        [TradeAggregation_recommend(self)
            EXCEPT !.last_market_state = last_market_state],
        base_balance, quote_balance)

\* C31: when update_market_state returns an error, the orders that
\* recommend() and recommend_orders() give afterwards are the orders priced
\* from the market state the aggregation held before the call: the rejected
\* state is discarded.
C31_RejectedStateDiscarded ==
    [][(call'.op = "update_market_state" /\ call'.ret.kind = "Err") =>
        \A base_balance \in Balances, quote_balance \in Balances :
            OrdersPricedFrom(aggregation', aggregation'.last_market_state,
                             base_balance, quote_balance)
                = OrdersPricedFrom(aggregation', aggregation.last_market_state,
                                   base_balance, quote_balance)]_vars

\* one Market and one Limit order of the side, whose quantities, taken by
\* quantity_of, sum to at most available
TwoOrdersWithin(orders, side, quantity_of(_), available) ==
    /\ Len(orders) = 2
    /\ \A i \in 1..2 : orders[i].side = side
    /\ {orders[i].order_type : i \in 1..2} = {"Market", "Limit"}
    /\ Rat_le(Rat_add(quantity_of(orders[1]), quantity_of(orders[2])),
              available)

QuoteQuantity(order) == order.quote_quantity
BaseQuantity(order) == order.base_quantity

\* the orders of a recommendation are two within the balance of its side
DecisionWithinBalance(recommendation, base_balance, quote_balance) ==
    LET orders == recommend_orders(recommendation, base_balance, quote_balance)
    IN /\ recommendation.recommendation_type = "Buy" =>
            TwoOrdersWithin(orders, "Buy", QuoteQuantity, quote_balance)
       /\ recommendation.recommendation_type = "Sell" =>
            TwoOrdersWithin(orders, "Sell", BaseQuantity, base_balance)

CurrencyIds == {1, 2, 3}

\* SPECULATOR_TARGET_MARKETS: one market, of base currency 1 and quote 2
SimTargetMarket == [base |-> 1, quote |-> 2]

\* SIM_SPEND_BUY_RATIO, SIM_SPEND_SELL_RATIO and SIM_FEE_RATIO: any number
\* that parses is taken
SimEnvs ==
    {[spend_buy_ratio |-> Rat(1, 2), spend_sell_ratio |-> Rat(1, 2),
      fee_ratio |-> Rat(1, 10)],
     [spend_buy_ratio |-> Rat(3, 1), spend_sell_ratio |-> Rat(1, 1),
      fee_ratio |-> Rat(0, 1)]}

\* the balances the scraper stores with one stamp:
\* <<currency, available, pending>>, at most one per currency
SimSheets ==
    {{},
     {<<1, 0, 0>>, <<2, 10, 1>>},
     {<<1, 10, 0>>, <<2, 10, 1>>, <<3, 5, 0>>}}

SimSides == {"None", "Buy", "Sell"}

SimOrderbooks ==
    {<<[side |-> "Sell", price |-> Amount(1), volume |-> Amount(100)],
       [side |-> "Buy", price |-> Amount(1), volume |-> Amount(100)]>>}

\* the last market state of the speculator: its price, and its orderbooks
SimMarketStates ==
    {[price |-> Amount(p), orderbooks |-> o] : p \in {1, 2}, o \in SimOrderbooks}

\* orders in which the HashMap of simulate_trade yields the currencies
SimIterationOrders == {<<1, 2, 3>>, <<3, 1, 2>>}

\* the rows of a sheet, with the next ids of the main store
SheetRows(main_rows, stamp_id, sheet) ==
    {Balance_new(Cardinality(main_rows)
                    + Cardinality({e \in sheet : e[1] <= t[1]}),
                 t[1], stamp_id, Amount(t[2]), Amount(t[3])) : t \in sheet}

InitSim ==
    /\ history = IdleHistory
    /\ rsi_history = IdleRsiHistory
    /\ rule = IdleRule
    /\ aggregation = IdleAggregation
    /\ graph = IdleGraph
    /\ database = IdleDatabase
    /\ scraper = IdleScraper
    /\ accepted = <<>>
    /\ call = NoCall
    /\ writers = IdleWriters
    /\ \E env \in SimEnvs, sheet \in SimSheets :
            store = [kind |-> "sim", env |-> env, latest_main_stamp |-> 1,
                     main_balances |-> SheetRows({}, 1, sheet),
                     sim_balances |-> {}, trades |-> 0]

\* the scraper adds a stamp and its balances to the main store
ScrapeStamp ==
    /\ store.latest_main_stamp < MaxSimStamp
    /\ \E sheet \in SimSheets :
            store' = [store EXCEPT
                        !.latest_main_stamp = @ + 1,
                        !.main_balances =
                            @ \cup SheetRows(@, store.latest_main_stamp + 1,
                                             sheet)]
    /\ call' = [op |-> "scrape", arg |-> None, ret |-> [kind |-> "Ok"]]
    /\ UNCHANGED <<writers, history, rsi_history, rule, aggregation, accepted,
                   graph, database, scraper>>

\* the inputs an arm of batch() reads: one arbitrary input for the arms that
\* do not read it
BatchInputs(arm, reader, inputs) ==
    IF arm = reader THEN inputs ELSE {CHOOSE x \in inputs : TRUE}

\* one run of batch()
Batch ==
    LET arm == batch_arm(store.sim_balances, store.latest_main_stamp)
        loaded == balances_of_stamp(store.main_balances,
                                    store.latest_main_stamp)
    IN /\ \E balances \in BatchInputs(arm, "sync_balance", Orders(loaded)),
             fault \in BatchInputs(arm, "sync_balance",
                                   0..Cardinality(loaded)),
             side \in BatchInputs(arm, "simulate_trade", SimSides),
             last_state \in BatchInputs(arm, "simulate_trade",
                                        SimMarketStates),
             currencies \in BatchInputs(arm, "simulate_trade",
                                        SimIterationOrders) :
            LET speculator ==
                    MultipleRsiSpeculator(SimTargetMarket.base,
                        SimTargetMarket.quote, side, last_state,
                        store.env.spend_buy_ratio, store.env.spend_sell_ratio)
                res == batch(store.sim_balances, store.latest_main_stamp,
                             CurrencyIds, balances, fault, <<speculator>>,
                             store.env.fee_ratio, currencies)
            IN /\ store' = [store EXCEPT
                                !.sim_balances = res.self,
                                !.trades = IF arm = "simulate_trade"
                                           THEN @ + 1 ELSE @]
               /\ call' = [op |-> "batch",
                           arg |-> Some([arm |-> arm, fault |-> fault,
                                         side |-> side,
                                         last_state |-> last_state]),
                           ret |-> [kind |-> res.ret]]
       /\ UNCHANGED <<writers, history, rsi_history, rule, aggregation, accepted,
                      graph, database, scraper>>

NextSim == ScrapeStamp \/ Batch

SpecSim == InitSim /\ [][NextSim]_vars

(***************************************************************************)
(* Properties of the trade simulator.                                      *)
(***************************************************************************)
\* C18: no Balance row of the simulation store has a negative available
\* amount: simulate_trade does not apply an order that would take the base
\* or the quote balance below 0.  (The main store's balances are never
\* negative, so a negative row was persisted by simulate_trade.)
C18_AvailableNeverNegative ==
    \A r \in store.sim_balances : ~Rat_lt(r.available, Amount(0))

\* C19: a batch run that finds the highest stamp id of the simulation
\* balances equal to the id of the main store's latest stamp leaves the
\* simulation store as it is.
C19_NoNewStampNoChange ==
    [][(/\ call'.op = "batch"
        /\ \E r \in store.sim_balances :
                r.stamp_id = store.latest_main_stamp
        /\ \A r \in store.sim_balances :
                r.stamp_id <= store.latest_main_stamp)
            => store'.sim_balances = store.sim_balances]_vars

\* batch() ran again after a simulated trade, with no new stamp in between
C19_Witness ==
    /\ call.op = "batch"
    /\ call.arg[1].arm = "no_new_timestamp"
    /\ call.ret.kind = "Err"
    /\ store.trades >= 1
    /\ store.sim_balances # {}

\* C20: a batch run on a simulation store without Balance row, none of
\* whose inserts fails, returns Ok and leaves in the simulation store one row
\* for every Balance of the main store's latest stamp, with the same
\* currency, stamp, available and pending, under pairwise distinct ids, and
\* simulates no trade.
C20_BootstrapCopies ==
    [][(/\ call'.op = "batch"
        /\ store.sim_balances = {}
        /\ call'.arg[1].fault = 0)
            => LET latest == {r \in store.main_balances :
                                r.stamp_id = store.latest_main_stamp}
                   values(r) == <<r.currency_id, r.stamp_id,
                                  r.available, r.pending>>
               IN /\ call'.ret.kind = "Ok"
                  /\ Cardinality(store'.sim_balances) = Cardinality(latest)
                  /\ {values(r) : r \in store'.sim_balances}
                        = {values(r) : r \in latest}
                  /\ \A r, q \in store'.sim_balances :
                        r.balance_id = q.balance_id => r = q
                  /\ store'.trades = store.trades]_vars

\* the bootstrap copied three balances of the second stamp, whose ids in the
\* main store differ from those of the copies
C20_Witness ==
    /\ call.op = "batch"
    /\ call.arg[1].arm = "sync_balance"
    /\ call.arg[1].fault = 0
    /\ call.ret.kind = "Ok"
    /\ Cardinality(store.sim_balances) = 3
    /\ \A r \in store.sim_balances : r.balance_id \in 1..3
    /\ \A r \in store.sim_balances :
            \E q \in store.main_balances :
                /\ q.currency_id = r.currency_id
                /\ q.stamp_id = r.stamp_id
                /\ q.balance_id # r.balance_id

\* the step is a run of batch() that took the simulate_trade arm
SimulatedTrade == call'.op = "batch" /\ call'.arg[1].arm = "simulate_trade"

\* the latest simulation balance of currency c before the step, if any
PreviousBalances(c) ==
    {r \in store.sim_balances :
        /\ r.currency_id = c
        /\ \A q \in store.sim_balances :
                q.currency_id = c => q.stamp_id <= r.stamp_id}

\* the available amount the working copy starts with for currency c
PreviousAvailable(c) ==
    IF PreviousBalances(c) = {} THEN Amount(0)
    ELSE (CHOOSE r \in PreviousBalances(c) : TRUE).available

\* the rows the step added for currency c
PersistedBalances(c) ==
    {r \in store'.sim_balances \ store.sim_balances : r.currency_id = c}

\* the orders the speculator of the step recommended
StepOrders ==
    MultipleRsiSpeculator_recommend(
        MultipleRsiSpeculator(SimTargetMarket.base, SimTargetMarket.quote,
                              call'.arg[1].side, call'.arg[1].last_state,
                              store.env.spend_buy_ratio,
                              store.env.spend_sell_ratio),
        [available |-> PreviousAvailable(SimTargetMarket.base)],
        [available |-> PreviousAvailable(SimTargetMarket.quote)])

RECURSIVE BaseAfter(_, _)
\* the base available after the first n orders: a Buy adds
\* base_quantity * (1 - f), a Sell subtracts base_quantity
BaseAfter(orders, n) ==
    IF n = 0 THEN PreviousAvailable(SimTargetMarket.base)
    ELSE LET f == store.env.fee_ratio
             o == orders[n]
         IN IF o.side = "Buy"
            THEN Amount_add(BaseAfter(orders, n - 1),
                    Amount_mul(o.base_quantity, Amount_sub(Amount(1), f)))
            ELSE Amount_sub(BaseAfter(orders, n - 1), o.base_quantity)

RECURSIVE QuoteAfter(_, _)
\* the quote available after the first n orders: a Buy subtracts
\* quote_quantity, a Sell adds quote_quantity * (1 - f)
QuoteAfter(orders, n) ==
    IF n = 0 THEN PreviousAvailable(SimTargetMarket.quote)
    ELSE LET f == store.env.fee_ratio
             o == orders[n]
         IN IF o.side = "Buy"
            THEN Amount_sub(QuoteAfter(orders, n - 1), o.quote_quantity)
            ELSE Amount_add(QuoteAfter(orders, n - 1),
                    Amount_mul(o.quote_quantity, Amount_sub(Amount(1), f)))

\* C21: the balances simulate_trade persists are the previous ones after the
\* recommended orders: with fee ratio f a Buy adds base_quantity * (1 - f) to
\* the base available and takes quote_quantity from the quote available, a
\* Sell takes base_quantity from the base available and adds
\* quote_quantity * (1 - f) to the quote available, and the available of
\* every other currency stays as it was.
C21_OrdersMoveBaseAndQuote ==
    [][SimulatedTrade =>
        \A c \in CurrencyIds :
            /\ PersistedBalances(c) # {}
            /\ \A r \in PersistedBalances(c) :
                    r.available
                        = IF c = SimTargetMarket.base
                          THEN BaseAfter(StepOrders, Len(StepOrders))
                          ELSE IF c = SimTargetMarket.quote
                          THEN QuoteAfter(StepOrders, Len(StepOrders))
                          ELSE PreviousAvailable(c)]_vars

\* the rows of currency c with the given stamp
RowsAt(c, stamp_id) ==
    {r \in store.sim_balances : r.currency_id = c /\ r.stamp_id = stamp_id}

\* a Buy of two orders under a fee of 1/10: the base balance grew by less
\* than the quote balance lost, and the third currency kept its 5
C21_Witness ==
    /\ call.op = "batch"
    /\ call.arg[1].arm = "simulate_trade"
    /\ call.arg[1].side = "Buy"
    /\ store.env.fee_ratio = Rat(1, 10)
    /\ \E s \in 1..(MaxSimStamp - 1) :
        \E b0 \in RowsAt(1, s), b1 \in RowsAt(1, s + 1),
           q0 \in RowsAt(2, s), q1 \in RowsAt(2, s + 1),
           o0 \in RowsAt(3, s), o1 \in RowsAt(3, s + 1) :
            /\ store.latest_main_stamp = s + 1
            /\ Rat_lt(b0.available, b1.available)
            /\ Rat_lt(q1.available, q0.available)
            /\ Rat_lt(Amount_sub(b1.available, b0.available),
                      Amount_sub(q0.available, q1.available))
            /\ o0.available = Amount(5)
            /\ o1.available = Amount(5)

\* C22: the pending of every row that simulate_trade persists is the pending
\* of the latest previous simulation balance of the row's currency (0 for a
\* currency that had none), whatever orders were applied.
C22_PendingUntouched ==
    [][SimulatedTrade =>
        \A c \in CurrencyIds :
            \A r \in PersistedBalances(c) :
                IF PreviousBalances(c) = {} THEN r.pending = Amount(0)
                ELSE \A q \in PreviousBalances(c) : r.pending = q.pending]_vars

\* a Buy or a Sell changed the available of the quote currency, and the row
\* it persisted carries the pending 1 of the row before
C22_Witness ==
    /\ call.op = "batch"
    /\ call.arg[1].arm = "simulate_trade"
    /\ call.arg[1].side # "None"
    /\ \E s \in 1..(MaxSimStamp - 1) :
        \E q0 \in RowsAt(2, s), q1 \in RowsAt(2, s + 1) :
            /\ store.latest_main_stamp = s + 1
            /\ q0.available # q1.available
            /\ q0.pending = Amount(1)
            /\ q1.pending = Amount(1)

\* C40: the bootstrap is all or nothing: whether or not one of its inserts
\* fails, a batch run on a simulation store without Balance row leaves in it
\* either one copy of every Balance of the main store's latest stamp or no
\* Balance at all.
C40_BootstrapAllOrNothing ==
    [][(call'.op = "batch" /\ call'.arg[1].arm = "sync_balance")
            => LET latest == balances_of_stamp(store.main_balances,
                                               store.latest_main_stamp)
                   values(r) == <<r.currency_id, r.stamp_id,
                                  r.available, r.pending>>
               IN \/ store'.sim_balances = {}
                  \/ /\ Cardinality(store'.sim_balances) = Cardinality(latest)
                     /\ {values(r) : r \in store'.sim_balances}
                            = {values(r) : r \in latest}]_vars

\* the supporting property that holds: a bootstrap whose insert number n
\* fails returns Err and leaves the copies of the n - 1 balances before it
FailedBootstrapKeepsPrefix ==
    [][(/\ call'.op = "batch"
        /\ call'.arg[1].arm = "sync_balance"
        /\ call'.arg[1].fault > 0)
            => /\ call'.ret.kind = "Err"
               /\ Cardinality(store'.sim_balances) = call'.arg[1].fault - 1
               /\ \A r \in store'.sim_balances :
                    \E q \in balances_of_stamp(store.main_balances,
                                               store.latest_main_stamp) :
                        /\ q.currency_id = r.currency_id
                        /\ q.available = r.available
                        /\ q.pending = r.pending]_vars

\* the working copy of the step's simulate_trade after its orders
WorkingCopy ==
    apply_speculators(
        load_latest_sim_balances(store.sim_balances, CurrencyIds),
        <<MultipleRsiSpeculator(SimTargetMarket.base, SimTargetMarket.quote,
                                call'.arg[1].side, call'.arg[1].last_state,
                                store.env.spend_buy_ratio,
                                store.env.spend_sell_ratio)>>,
        1, store.env.fee_ratio)

\* C34: the rows one simulate_trade run persists are exactly one new row
\* for every currency of the working copy whose available and pending are
\* not both 0, with the available and pending of the working copy, the id of
\* the latest main stamp and an id that no earlier row has, and no row for a
\* currency whose available and pending are 0.
C34_ZeroBalancesSkipped ==
    [][SimulatedTrade =>
        \A c \in DOMAIN WorkingCopy :
            IF /\ WorkingCopy[c].available = Amount(0)
               /\ WorkingCopy[c].pending = Amount(0)
            THEN PersistedBalances(c) = {}
            ELSE /\ Cardinality(PersistedBalances(c)) = 1
                 /\ \A r \in PersistedBalances(c) :
                        /\ r.available = WorkingCopy[c].available
                        /\ r.pending = WorkingCopy[c].pending
                        /\ r.stamp_id = store.latest_main_stamp
                        /\ \A q \in store.sim_balances :
                                q.balance_id # r.balance_id]_vars

\* the supporting property that holds: one new row for every currency of the
\* working copy, zero or not, with the latest main stamp and a fresh id
EveryCurrencyPersisted ==
    [][SimulatedTrade =>
        \A c \in DOMAIN WorkingCopy :
            /\ Cardinality(PersistedBalances(c)) = 1
            /\ \A r \in PersistedBalances(c) :
                    /\ r.available = WorkingCopy[c].available
                    /\ r.pending = WorkingCopy[c].pending
                    /\ r.stamp_id = store.latest_main_stamp
                    /\ \A q \in store.sim_balances :
                            q.balance_id # r.balance_id]_vars

(***************************************************************************)
(* Specification of the exchange graph: a graph built by from_rates, then  *)
(* any sequence of rate_between queries.                                   *)
(***************************************************************************)
GraphNodes == {1, 2, 3, 4}

\* the rates a graph is built from: <<base, target, rate>>
EdgeChoices ==
    {<<1, 2, Rat(2, 1)>>, <<1, 3, Rat(3, 1)>>, <<3, 2, Rat(1, 2)>>,
     <<2, 4, Rat(2, 1)>>}

InitGraph ==
    /\ history = IdleHistory
    /\ rsi_history = IdleRsiHistory
    /\ rule = IdleRule
    /\ aggregation = IdleAggregation
    /\ store = IdleStore
    /\ database = IdleDatabase
    /\ scraper = IdleScraper
    /\ call = NoCall
    /\ writers = IdleWriters
    /\ \E rates \in SeqsUpTo(EdgeChoices, MaxEdges) :
            /\ graph = ExchangeGraph_from_rates(rates)
            /\ accepted = rates

\* one query rate_between(base, target)
RateBetween ==
    /\ \E base \in GraphNodes, target \in GraphNodes :
            LET res == ExchangeGraph_rate_between(graph, base, target)
            IN /\ graph' = res.self
               /\ call' = [op |-> "rate_between", arg |-> None,
                           ret |-> [kind |-> IF res.ret = None
                                             THEN "None" ELSE "Some"]]
    /\ UNCHANGED <<writers, history, rsi_history, rule, aggregation, store, database,
                   scraper, accepted>>

NextGraph == RateBetween

SpecGraph == InitGraph /\ [][NextGraph]_vars

(***************************************************************************)
(* Properties of the exchange graph.                                       *)
(***************************************************************************)
\* a and b are the two ends of one of the rates the graph was built from
Adjacent(a, b) ==
    \E i \in 1..Len(accepted) :
        \/ accepted[i][1] = a /\ accepted[i][2] = b
        \/ accepted[i][1] = b /\ accepted[i][2] = a

RECURSIVE ReachableFrom(_)
\* the currencies a path of given rates, taken in either direction, leads to
ReachableFrom(S) ==
    LET further == S \cup {n \in GraphNodes : \E m \in S : Adjacent(m, n)}
    IN IF further = S THEN S ELSE ReachableFrom(further)

Connected(a, b) == b \in ReachableFrom({a})

\* C23: for two distinct connected currencies a and b, the rate from a to b
\* times the rate from b to a, asked one after the other, is 1, on every
\* graph and after any earlier queries.
C23_RatesAreInverse ==
    \A a \in GraphNodes, b \in GraphNodes :
        (a # b /\ Connected(a, b)) =>
            LET forward == ExchangeGraph_rate_between(graph, a, b)
                backward == ExchangeGraph_rate_between(forward.self, b, a)
            IN /\ forward.ret # None
               /\ backward.ret # None
               /\ Amount_mul(forward.ret[1], backward.ret[1]) = Amount(1)

\* C24: on every graph, after any earlier queries, rate_between(a, b)
\* returns a rate exactly when a = b or a path of given rates, taken in
\* either direction, leads from a to b, and the rate of a to itself is 1;
\* it returns None exactly when there is no such path.
C24_RateIffConnected ==
    \A a \in GraphNodes, b \in GraphNodes :
        LET found == ExchangeGraph_rate_between(graph, a, b).ret
        IN /\ found # None <=> (a = b \/ Connected(a, b))
           /\ a = b => found = Some(Amount(1))

\* the graph holds the cycle 1 - 2 - 3 - 1 and a registered search result,
\* and the last query found no path
C24_Witness ==
    /\ call.op = "rate_between"
    /\ call.ret.kind = "None"
    /\ Adjacent(1, 2) /\ Adjacent(2, 3) /\ Adjacent(1, 3)
    /\ \E a \in GraphNodes, b \in GraphNodes :
            /\ a # b
            /\ ~Connected(a, b)
            /\ ExchangeGraph_rate_between(graph, a, b).ret = None

\* C39: on every graph and after any earlier queries, rate_between(a, b)
\* returns what it returns on a graph newly built from the same rates: the
\* search results registered by earlier queries change no later answer.
C39_MemoisationChangesNoAnswer ==
    \A a \in GraphNodes, b \in GraphNodes :
        ExchangeGraph_rate_between(graph, a, b).ret
            = ExchangeGraph_rate_between(ExchangeGraph_from_rates(accepted),
                                         a, b).ret

(***************************************************************************)
(* Specification of the database logic under a single writer: any sequence *)
(* of add_* calls on one connection, each of which may meet a failing      *)
(* statement.                                                              *)
(***************************************************************************)
TableKinds ==
    {"currency", "stamp", "balance", "market", "price", "orderbook", "myorder"}

\* the database after the migrations: no row, every next id at 1
EmptyDatabase ==
    [next_id |-> [k \in TableKinds |-> 1],
     currency |-> {}, stamp |-> {}, balance |-> {}, market |-> {},
     price |-> {}, orderbook |-> {}, myorder |-> {}]

Faults == {"none", "update", "insert"}

DbSymbols == {"BTC", "ETH"}
DbMarkets == {<<1, 2>>, <<2, 1>>}
DbTransactionIds == {"t1", "t2"}
MyorderStates == {"Opened", "Filled", "Cancelled"}
NowStamps == 1..MaxNowStamp

RowCount(db) ==
    Cardinality(db.currency) + Cardinality(db.stamp)
        + Cardinality(db.balance) + Cardinality(db.market)
        + Cardinality(db.price) + Cardinality(db.orderbook)
        + Cardinality(db.myorder)

\* the results of the add_* calls a writer can make next
StampResults ==
    {[kind |-> "stamp", res |-> add_stamp(database, 1, f)] : f \in Faults}
CurrencyResults ==
    {[kind |-> "currency", res |-> add_currency(database, s, "coin", f)] :
        s \in DbSymbols, f \in Faults}
BalanceResults ==
    {[kind |-> "balance",
      res |-> add_balance(database, 1, 1, Amount(1), Amount(0), f)] :
        f \in Faults}
MarketResults ==
    {[kind |-> "market", res |-> add_market(database, m[1], m[2], f)] :
        m \in DbMarkets, f \in Faults}
PriceResults ==
    {[kind |-> "price", res |-> add_price(database, 1, 1, Amount(1), f)] :
        f \in Faults}
OrderbookResults ==
    {[kind |-> "orderbook",
      res |-> add_orderbook(database, 1, 1, "Buy", Amount(1), Amount(1), f)] :
        f \in Faults}
MyorderResults(states, stamps) ==
    {[kind |-> "myorder",
      res |-> add_or_update_myorder(database, t, 1, now, Amount(1), "Buy",
                                    state, f)] :
        t \in DbTransactionIds, now \in stamps, state \in states, f \in Faults}

InitDatabase ==
    /\ history = IdleHistory
    /\ rsi_history = IdleRsiHistory
    /\ rule = IdleRule
    /\ aggregation = IdleAggregation
    /\ store = IdleStore
    /\ graph = IdleGraph
    /\ scraper = IdleScraper
    /\ accepted = <<>>
    /\ call = NoCall
    /\ writers = IdleWriters
    /\ database = EmptyDatabase

\* the tables a run may grow to
Fits(db) == RowCount(db) <= MaxRows

\* the record of a call: the function and the kind of its result
Returned(op, ret) == [op |-> op, arg |-> None, ret |-> [kind |-> ret.kind]]

AddStamp ==
    /\ \E c \in StampResults :
            /\ Fits(c.res.self)
            /\ database' = c.res.self
            /\ call' = Returned("add_stamp", c.res.ret)
    /\ UNCHANGED <<writers, history, rsi_history, rule, aggregation, store, graph,
                   scraper, accepted>>

AddCurrency ==
    /\ \E c \in CurrencyResults :
            /\ Fits(c.res.self)
            /\ database' = c.res.self
            /\ call' = Returned("add_currency", c.res.ret)
    /\ UNCHANGED <<writers, history, rsi_history, rule, aggregation, store, graph,
                   scraper, accepted>>

AddBalance ==
    /\ \E c \in BalanceResults :
            /\ Fits(c.res.self)
            /\ database' = c.res.self
            /\ call' = Returned("add_balance", c.res.ret)
    /\ UNCHANGED <<writers, history, rsi_history, rule, aggregation, store, graph,
                   scraper, accepted>>

AddMarket ==
    /\ \E c \in MarketResults :
            /\ Fits(c.res.self)
            /\ database' = c.res.self
            /\ call' = Returned("add_market", c.res.ret)
    /\ UNCHANGED <<writers, history, rsi_history, rule, aggregation, store, graph,
                   scraper, accepted>>

AddPrice ==
    /\ \E c \in PriceResults :
            /\ Fits(c.res.self)
            /\ database' = c.res.self
            /\ call' = Returned("add_price", c.res.ret)
    /\ UNCHANGED <<writers, history, rsi_history, rule, aggregation, store, graph,
                   scraper, accepted>>

AddOrderbook ==
    /\ \E c \in OrderbookResults :
            /\ Fits(c.res.self)
            /\ database' = c.res.self
            /\ call' = Returned("add_orderbook", c.res.ret)
    /\ UNCHANGED <<writers, history, rsi_history, rule, aggregation, store, graph,
                   scraper, accepted>>

AddMyorder ==
    /\ \E c \in MyorderResults({"Opened"}, {1}) :
            /\ Fits(c.res.self)
            /\ database' = c.res.self
            /\ call' = Returned("add_or_update_myorder", c.res.ret)
    /\ UNCHANGED <<writers, history, rsi_history, rule, aggregation, store, graph,
                   scraper, accepted>>

NextDatabase ==
    \/ AddStamp
    \/ AddCurrency
    \/ AddBalance
    \/ AddMarket
    \/ AddPrice
    \/ AddOrderbook
    \/ AddMyorder

SpecDatabase == InitDatabase /\ [][NextDatabase]_vars

\* the ids of the rows of a table
IdsOf(db, kind) == {primary_key(kind, r) : r \in db[kind]}

\* C25: whatever add_* call comes next: a row that exists keeps its id (and,
\* but for the state of a MyOrder, its values); a call that succeeds adds at
\* most one row, under an id greater than every id of its table; and a call
\* that fails, also by a statement failing inside its transaction, leaves
\* the next ids and the tables as they were.  The next id of a table is
\* greater than every id in it.
C25_IdsMonotonic ==
    /\ \A k \in TableKinds :
            \A id \in IdsOf(database, k) : id < database.next_id[k]
    /\ \A c \in StampResults \cup CurrencyResults \cup BalanceResults
                \cup MarketResults \cup PriceResults \cup OrderbookResults
                \cup MyorderResults({"Opened"}, {1}) :
            LET after == c.res.self
            IN /\ \A k \in TableKinds :
                    /\ IdsOf(database, k) \subseteq IdsOf(after, k)
                    /\ k # "myorder" => database[k] \subseteq after[k]
                    /\ Cardinality(after[k]) = Cardinality(IdsOf(after, k))
                    /\ k # c.kind => after[k] = database[k]
               /\ \A id \in IdsOf(after, c.kind) \ IdsOf(database, c.kind) :
                    /\ c.res.ret.kind = "Ok"
                    /\ \A old \in IdsOf(database, c.kind) : old < id
                    /\ IdsOf(after, c.kind)
                            = IdsOf(database, c.kind) \cup {id}
               /\ c.res.ret.kind # "Ok" => after = database

\* a second balance was to be added and a statement of its transaction
\* failed: the table holds the first balance, and the next id is still 2
C25_Witness ==
    /\ call.op = "add_balance"
    /\ call.ret.kind = "Err"
    /\ IdsOf(database, "balance") = {1}
    /\ database.next_id.balance = 2

(***************************************************************************)
(* Specification of the MyOrder table: any sequence of                     *)
(* add_or_update_myorder calls, of any state at any stamp.                 *)
(***************************************************************************)
AddOrUpdateMyorder ==
    /\ \E c \in MyorderResults(MyorderStates, NowStamps) :
            /\ Fits(c.res.self)
            /\ database' = c.res.self
            /\ call' = Returned("add_or_update_myorder", c.res.ret)
    /\ UNCHANGED <<writers, history, rsi_history, rule, aggregation, store, graph,
                   scraper, accepted>>

NextMyorder == AddOrUpdateMyorder

SpecMyorder == InitDatabase /\ [][NextMyorder]_vars

\* C26: no two MyOrder rows have the same transaction_id, and whatever
\* add_or_update_myorder call comes next, every row keeps its id, its
\* transaction_id and its created_stamp_id; a call that no failure of the
\* store interrupts gives the row of its transaction_id the observed state
\* and the current stamp as modified_stamp_id when the observed state
\* differs from the stored one, whatever the two states are, and leaves the
\* row as it is when they are equal; the rows of other transaction ids stay
\* as they are.
C26_OneRowPerTransaction ==
    /\ \A r, q \in database.myorder :
            r.transaction_id = q.transaction_id => r = q
    /\ \A t \in DbTransactionIds, now \in NowStamps, state \in MyorderStates,
          f \in Faults :
            LET after == add_or_update_myorder(database, t, 1, now, Amount(1),
                                               "Buy", state, f).self.myorder
            IN \A r \in database.myorder :
                \E q \in after :
                    /\ q.myorder_id = r.myorder_id
                    /\ q.transaction_id = r.transaction_id
                    /\ q.created_stamp_id = r.created_stamp_id
                    /\ (r.transaction_id = t /\ r.state # state /\ f = "none")
                            => q = [r EXCEPT !.modified_stamp_id = now,
                                             !.state = state]
                    /\ (r.transaction_id # t \/ r.state = state) => q = r

\* two orders are stored; one was created at stamp 1 as Cancelled and is
\* Opened since stamp 2, the last call left the table as it was
C26_Witness ==
    /\ call.op = "add_or_update_myorder"
    /\ call.ret.kind = "Ok"
    /\ Cardinality(database.myorder) = 2
    /\ \E r \in database.myorder :
            /\ r.created_stamp_id = 1
            /\ r.modified_stamp_id = 2
            /\ r.state = "Opened"
    /\ \E r \in database.myorder :
            r.created_stamp_id = 2 /\ r.modified_stamp_id = 1

(***************************************************************************)
(* nicehash_scraper/src/main.rs.  One run of the scraper: the position of  *)
(* main, the stamp of the run, the collections it loaded, the phases it    *)
(* reached and the steps that failed.  What the exchange answers and which *)
(* statements fail are inputs of the steps.                                *)
(***************************************************************************)
to_myorder_state(s) ==
    IF s \in {"CREATED", "PARTIAL", "RESERVED", "INSERTED", "ENTERED",
              "RELEASED", "CANCEL_REQUEST"} THEN Some("Opened")
    ELSE IF s = "FULL" THEN Some("Filled")
    ELSE IF s = "CANCELLED" THEN Some("Cancelled")
    ELSE IF s \in {"RESERVATION_ERROR", "INSERTED_ERROR", "RELEASED_ERROR",
                   "PROCESSED_ERROR", "CANCELLED_ERROR", "REJECTED"}
         THEN Some("Error")
    ELSE None

unwrap_or(option, default) == IF option = None THEN default ELSE option[1]

\* the first row, in the order of the ids, of a set of loaded rows
first_of(kind, rows) ==
    IF rows = {} THEN None
    ELSE Some(CHOOSE r \in rows :
                \A q \in rows : primary_key(kind, r) <= primary_key(kind, q))

\* the rows of a table as the list a load returns
RECURSIVE load(_, _)
load(kind, rows) ==
    IF rows = {} THEN <<>>
    ELSE LET first == first_of(kind, rows)[1]
         IN <<first>> \o load(kind, rows \ {first})

\* CurrencyCollection::by_symbol
by_symbol(currencies, symbol) ==
    first_of("currency", {c \in currencies : c.symbol = symbol})

\* CurrencyCollection::by_id
by_id(currencies, currency_id) ==
    first_of("currency", {c \in currencies : c.currency_id = currency_id})

\* MarketCollection::by_base_quote_id
by_base_quote_id(markets, base_currency_id, quote_currency_id) ==
    first_of("market", {m \in markets : /\ m.base_id = base_currency_id
                                        /\ m.quote_id = quote_currency_id})

\* the step a failing call is logged for
failed_if(kind, step) == IF kind = "Err" THEN {step} ELSE {}

\* main, lines 286-299: every fetched currency is added; a failure of the
\* store is a warning, a duplicate is passed over
RECURSIVE add_currencies(_, _, _)
add_currencies(db, currencies, faults) ==
    IF currencies = <<>> THEN [db |-> db, failed |-> {}]
    ELSE LET res == add_currency(db, Head(currencies).symbol,
                                 Head(currencies).name, Head(faults))
             rest == add_currencies(res.self, Tail(currencies), Tail(faults))
         IN [db |-> rest.db,
             failed |-> rest.failed \cup failed_if(res.ret.kind, "add_currency")]

\* main, lines 311-339: the balances of the known currencies are added
RECURSIVE add_balances(_, _, _, _, _)
add_balances(db, currency_collection, stamp, balances, faults) ==
    IF balances = <<>> THEN [db |-> db, failed |-> {}]
    ELSE LET currency == by_symbol(currency_collection, Head(balances).symbol)
             res == IF currency = None
                    THEN [self |-> db, ret |-> [kind |-> "Skipped"]]
                    ELSE add_balance(db, currency[1].currency_id,
                                     stamp.stamp_id, Head(balances).available,
                                     Head(balances).pending, Head(faults))
             rest == add_balances(res.self, currency_collection, stamp,
                                  Tail(balances), Tail(faults))
         IN [db |-> rest.db,
             failed |-> rest.failed \cup failed_if(res.ret.kind, "add_balance")]

\* main, lines 361-390: the market of every fetched price is found among the
\* markets loaded before the loop or added, and the price is added to it; a
\* fault is the pair of the faults of add_market and add_price
RECURSIVE add_prices(_, _, _, _, _, _)
add_prices(db, currency_collection, local_markets, stamp, markets, faults) ==
    IF markets = <<>> THEN [db |-> db, failed |-> {}]
    ELSE LET base == by_symbol(currency_collection, Head(markets).base)
             quote == by_symbol(currency_collection, Head(markets).quote)
             local == by_base_quote_id(local_markets, base[1].currency_id,
                                       quote[1].currency_id)
             market ==
                IF base = None \/ quote = None
                THEN [self |-> db, ret |-> [kind |-> "Skipped", row |-> None]]
                ELSE IF local # None
                THEN [self |-> db, ret |-> [kind |-> "Ok", row |-> local]]
                ELSE add_market(db, base[1].currency_id, quote[1].currency_id,
                                Head(faults)[1])
             price ==
                IF market.ret.row = None
                THEN [self |-> market.self, ret |-> [kind |-> "Skipped"]]
                ELSE add_price(market.self, market.ret.row[1].market_id,
                               stamp.stamp_id, Head(markets).price,
                               Head(faults)[2])
             rest == add_prices(price.self, currency_collection, local_markets,
                                stamp, Tail(markets), Tail(faults))
         IN [db |-> rest.db,
             failed |-> rest.failed
                \cup (IF market.ret.kind \in {"Err", "DuplicatedMarket"}
                      THEN {"add_market"} ELSE {})
                \cup failed_if(price.ret.kind, "add_price")]

\* main, lines 342-398: a failing fetch of the market prices, and a failing
\* load of the markets before or after the prices are added, end the run
main_market_prices(db, currency_collection, stamp, fetched, lists, faults) ==
    IF fetched = None
    THEN [db |-> db, failed |-> {"fetch_market_prices"}, returned |-> TRUE,
          markets |-> <<>>]
    ELSE IF lists = "first"
    THEN [db |-> db, failed |-> {"list_markets"}, returned |-> TRUE,
          markets |-> <<>>]
    ELSE LET res == add_prices(db, currency_collection, db.market, stamp,
                               fetched[1], faults)
         IN IF lists = "second"
            THEN [db |-> res.db, failed |-> res.failed \cup {"list_markets"},
                  returned |-> TRUE, markets |-> <<>>]
            ELSE [db |-> res.db, failed |-> res.failed, returned |-> FALSE,
                  markets |-> load("market", res.db.market)]

\* main, lines 411-416: the orderbooks of one market are added
RECURSIVE add_orderbooks(_, _, _, _, _)
add_orderbooks(db, market, stamp, orderbooks, faults) ==
    IF orderbooks = <<>> THEN [db |-> db, failed |-> {}]
    ELSE LET res == add_orderbook(db, market.market_id, stamp.stamp_id,
                                  Head(orderbooks).kind, Head(orderbooks).price,
                                  Head(orderbooks).volume, Head(faults))
             rest == add_orderbooks(res.self, market, stamp, Tail(orderbooks),
                                    Tail(faults))
         IN [db |-> rest.db,
             failed |-> rest.failed
                            \cup failed_if(res.ret.kind, "add_orderbook")]

\* main, lines 400-417: the orderbooks of every market are fetched and
\* added; a failing fetch passes on to the next market
RECURSIVE main_orderbooks(_, _, _, _, _)
main_orderbooks(db, markets, stamp, fetched, faults) ==
    IF markets = <<>> THEN [db |-> db, failed |-> {}]
    ELSE LET res == IF Head(fetched) = None
                    THEN [db |-> db, failed |-> {"fetch_orderbooks"}]
                    ELSE add_orderbooks(db, Head(markets), stamp,
                                        Head(fetched)[1], Head(faults))
             rest == main_orderbooks(res.db, Tail(markets), stamp,
                                     Tail(fetched), Tail(faults))
         IN [db |-> rest.db, failed |-> rest.failed \cup res.failed]

\* main, lines 430-452: the orders of one market are added or updated; this
\* main passes neither order type nor side
RECURSIVE add_myorders(_, _, _, _, _)
add_myorders(db, market, stamp, myorders, faults) ==
    IF myorders = <<>> THEN [db |-> db, failed |-> {}]
    ELSE LET state == unwrap_or(to_myorder_state(Head(myorders).state), "Error")
             res == add_or_update_myorder(db, Head(myorders).transaction_id,
                                          market.market_id, stamp.stamp_id,
                                          Head(myorders).price, "Buy", state,
                                          Head(faults))
             rest == add_myorders(res.self, market, stamp, Tail(myorders),
                                  Tail(faults))
         IN [db |-> rest.db,
             failed |-> rest.failed
                            \cup failed_if(res.ret.kind, "add_or_update_myorder")]

\* main, lines 419-453
RECURSIVE main_myorders(_, _, _, _, _)
main_myorders(db, markets, stamp, fetched, faults) ==
    IF markets = <<>> THEN [db |-> db, failed |-> {}]
    ELSE LET res == IF Head(fetched) = None
                    THEN [db |-> db, failed |-> {"fetch_myorder"}]
                    ELSE add_myorders(db, Head(markets), stamp,
                                      Head(fetched)[1], Head(faults))
             rest == main_myorders(res.db, Tail(markets), stamp,
                                   Tail(fetched), Tail(faults))
         IN [db |-> rest.db, failed |-> rest.failed \cup res.failed]

(***************************************************************************)
(* Specification of the scraper: up to MaxRuns runs, one after the other,  *)
(* the first on an empty database.                                         *)
(***************************************************************************)
FetchedCurrencies ==
    {None, Some(<<[symbol |-> "BTC", name |-> "coin"],
                  [symbol |-> "ETH", name |-> "coin"]>>)}
FetchedBalances ==
    {None, Some(<<[symbol |-> "BTC", available |-> Amount(1),
                   pending |-> Amount(0)]>>)}
FetchedMarketPrices ==
    {None, Some(<<[base |-> "ETH", quote |-> "BTC", price |-> Amount(1)]>>)}
FetchedOrderbooks ==
    {None, Some(<<[kind |-> "Buy", price |-> Amount(1), volume |-> Amount(1)]>>)}
FetchedMyorders ==
    {None, Some(<<[transaction_id |-> "t1", price |-> Amount(1),
                   state |-> "FULL"]>>),
           Some(<<[transaction_id |-> "t1", price |-> Amount(1),
                   state |-> "UNKNOWN"]>>)}

\* the faults of the statements of a step that makes up to two calls
TwoFaults == {<<f, g>> : f \in Faults, g \in Faults}

Phases == {"currencies", "balances", "market_prices", "orderbooks", "myorders"}

\* a run at its position pc; run is the number of the run and start the
\* database it began with
ScraperAt(pc, stamp, currency_collection, markets, executed, failed, run, start) ==
    [kind |-> "run", pc |-> pc, stamp |-> stamp,
     currency_collection |-> currency_collection, markets |-> markets,
     executed |-> executed, failed |-> failed, run |-> run, start |-> start]

InitScraper ==
    /\ history = IdleHistory
    /\ rsi_history = IdleRsiHistory
    /\ rule = IdleRule
    /\ aggregation = IdleAggregation
    /\ store = IdleStore
    /\ graph = IdleGraph
    /\ accepted = <<>>
    /\ call = NoCall
    /\ writers = IdleWriters
    /\ database = EmptyDatabase
    /\ scraper = ScraperAt("connect_db", None, {}, <<>>, {}, {}, 1,
                            EmptyDatabase)

\* lines 268-277: fetch_server_time().unwrap() and connect_db()
MainConnectDb ==
    /\ scraper.pc = "connect_db"
    /\ \E time \in BOOLEAN, connected \in BOOLEAN :
        /\ scraper' =
            IF ~time THEN [scraper EXCEPT !.pc = "panicked"]
            ELSE IF ~connected
            THEN [scraper EXCEPT !.pc = "returned", !.failed = {"connect_db"}]
            ELSE [scraper EXCEPT !.pc = "add_stamp"]
        /\ call' = [op |-> "connect_db", arg |-> None,
                    ret |-> [kind |-> scraper'.pc]]
    /\ UNCHANGED <<writers, history, rsi_history, rule, aggregation, store, graph,
                   database, accepted>>

\* lines 279-285
MainAddStamp ==
    /\ scraper.pc = "add_stamp"
    /\ \E fault \in Faults :
        LET res == add_stamp(database, scraper.run, fault)
        IN /\ database' = res.self
           /\ scraper' =
                IF res.ret.kind = "Ok"
                THEN [scraper EXCEPT !.pc = "fetch_currencies",
                                     !.stamp = res.ret.row]
                ELSE [scraper EXCEPT !.pc = "returned",
                                     !.failed = {"add_stamp"}]
           /\ call' = [op |-> "add_stamp", arg |-> None,
                       ret |-> [kind |-> scraper'.pc]]
    /\ UNCHANGED <<writers, history, rsi_history, rule, aggregation, store, graph,
                   accepted>>

\* lines 287-301
MainCurrencies ==
    /\ scraper.pc = "fetch_currencies"
    /\ \E fetched \in FetchedCurrencies, faults \in TwoFaults :
        LET res == IF fetched = None
                   THEN [db |-> database, failed |-> {"fetch_currencies"}]
                   ELSE add_currencies(database, fetched[1], faults)
        IN /\ database' = res.db
           /\ scraper' = [scraper EXCEPT
                            !.pc = "list_currencies",
                            !.executed = @ \cup {"currencies"},
                            !.failed = @ \cup res.failed]
           /\ call' = [op |-> "fetch_currencies", arg |-> None,
                       ret |-> [kind |-> scraper'.pc]]
    /\ UNCHANGED <<writers, history, rsi_history, rule, aggregation, store, graph,
                   accepted>>

\* lines 303-310
MainListCurrencies ==
    /\ scraper.pc = "list_currencies"
    /\ \E listed \in BOOLEAN :
        /\ scraper' =
            IF listed
            THEN [scraper EXCEPT !.pc = "fetch_balances",
                                 !.currency_collection = database.currency]
            ELSE [scraper EXCEPT !.pc = "returned",
                                 !.failed = @ \cup {"list_currencies"}]
        /\ call' = [op |-> "list_currencies", arg |-> None,
                    ret |-> [kind |-> scraper'.pc]]
    /\ UNCHANGED <<writers, history, rsi_history, rule, aggregation, store, graph,
                   database, accepted>>

\* lines 312-340
MainBalances ==
    /\ scraper.pc = "fetch_balances"
    /\ \E fetched \in FetchedBalances, faults \in TwoFaults :
        LET res == IF fetched = None
                   THEN [db |-> database, failed |-> {"fetch_balances"}]
                   ELSE add_balances(database, scraper.currency_collection,
                                     scraper.stamp[1], fetched[1], faults)
        IN /\ database' = res.db
           /\ scraper' = [scraper EXCEPT
                            !.pc = "fetch_market_prices",
                            !.executed = @ \cup {"balances"},
                            !.failed = @ \cup res.failed]
           /\ call' = [op |-> "fetch_balances", arg |-> None,
                       ret |-> [kind |-> scraper'.pc]]
    /\ UNCHANGED <<writers, history, rsi_history, rule, aggregation, store, graph,
                   accepted>>

\* lines 342-398
MainMarketPrices ==
    /\ scraper.pc = "fetch_market_prices"
    /\ \E fetched \in FetchedMarketPrices,
          lists \in {"none", "first", "second"}, faults \in TwoFaults :
        LET res == main_market_prices(database, scraper.currency_collection,
                                      scraper.stamp[1], fetched, lists,
                                      <<faults>>)
        IN /\ database' = res.db
           /\ scraper' = [scraper EXCEPT
                            !.pc = IF res.returned THEN "returned"
                                   ELSE "fetch_orderbooks",
                            !.markets = res.markets,
                            !.executed = @ \cup {"market_prices"},
                            !.failed = @ \cup res.failed]
           /\ call' = [op |-> "fetch_market_prices", arg |-> None,
                       ret |-> [kind |-> scraper'.pc]]
    /\ UNCHANGED <<writers, history, rsi_history, rule, aggregation, store, graph,
                   accepted>>

\* lines 400-417
MainOrderbooks ==
    /\ scraper.pc = "fetch_orderbooks"
    /\ \E fetched \in [1..Len(scraper.markets) -> FetchedOrderbooks],
          faults \in [1..Len(scraper.markets) -> TwoFaults] :
        LET res == main_orderbooks(database, scraper.markets, scraper.stamp[1],
                                   fetched, faults)
        IN /\ database' = res.db
           /\ scraper' = [scraper EXCEPT
                            !.pc = "fetch_myorders",
                            !.executed = @ \cup {"orderbooks"},
                            !.failed = @ \cup res.failed]
           /\ call' = [op |-> "fetch_orderbooks", arg |-> None,
                       ret |-> [kind |-> scraper'.pc]]
    /\ UNCHANGED <<writers, history, rsi_history, rule, aggregation, store, graph,
                   accepted>>

\* lines 419-453
MainMyorders ==
    /\ scraper.pc = "fetch_myorders"
    /\ \E fetched \in [1..Len(scraper.markets) -> FetchedMyorders],
          faults \in [1..Len(scraper.markets) -> TwoFaults] :
        LET res == main_myorders(database, scraper.markets, scraper.stamp[1],
                                 fetched, faults)
        IN /\ database' = res.db
           /\ scraper' = [scraper EXCEPT
                            !.pc = "fetch_server_time",
                            !.executed = @ \cup {"myorders"},
                            !.failed = @ \cup res.failed]
           /\ call' = [op |-> "fetch_myorders", arg |-> None,
                       ret |-> [kind |-> scraper'.pc]]
    /\ UNCHANGED <<writers, history, rsi_history, rule, aggregation, store, graph,
                   accepted>>

\* lines 455-456: fetch_server_time().unwrap()
MainFinish ==
    /\ scraper.pc = "fetch_server_time"
    /\ \E time \in BOOLEAN :
        /\ scraper' = [scraper EXCEPT
                        !.pc = IF time THEN "finished" ELSE "panicked"]
        /\ call' = [op |-> "fetch_server_time", arg |-> None,
                    ret |-> [kind |-> scraper'.pc]]
    /\ UNCHANGED <<writers, history, rsi_history, rule, aggregation, store, graph,
                   database, accepted>>

\* the scraper is started again after a run that is over
MainAgain ==
    /\ scraper.pc \in {"returned", "panicked", "finished"}
    /\ scraper.run < MaxRuns
    /\ scraper' = ScraperAt("connect_db", None, {}, <<>>, {}, {},
                             scraper.run + 1, database)
    /\ call' = [op |-> "main", arg |-> None, ret |-> [kind |-> scraper'.pc]]
    /\ UNCHANGED <<writers, history, rsi_history, rule, aggregation, store, graph,
                   database, accepted>>

NextScraper ==
    \/ MainAgain
    \/ MainConnectDb
    \/ MainAddStamp
    \/ MainCurrencies
    \/ MainListCurrencies
    \/ MainBalances
    \/ MainMarketPrices
    \/ MainOrderbooks
    \/ MainMyorders
    \/ MainFinish

SpecScraper == InitScraper /\ [][NextScraper]_vars

\* the steps of the phases: the fetches from the exchange and the stores of
\* what they returned
PhaseSteps ==
    {"fetch_currencies", "add_currency", "fetch_balances", "add_balance",
     "fetch_market_prices", "add_market", "add_price", "fetch_orderbooks",
     "add_orderbook", "fetch_myorder", "add_or_update_myorder"}

\* C27: a run that connected and added its stamp, in which only fetches and
\* stores of the phases failed, has reached every phase when it is over.
C27_LaterPhasesExecuted ==
    (/\ scraper.pc \in {"returned", "panicked", "finished"}
     /\ scraper.stamp # None
     /\ scraper.failed \subseteq PhaseSteps)
        => scraper.executed = Phases

\* the rows of a table that the run added or modified so far
RowsOfRun(kind) == database[kind] \ scraper.start[kind]

\* C37: a run inserts its one Stamp before any other row (a run that has
\* not added its stamp has changed nothing), it inserts no second one, and
\* every Balance, Price and Orderbook row it inserts, every MyOrder it
\* creates (as created and modified stamp) and every MyOrder it modifies (as
\* modified stamp) carries the id of that Stamp.
C37_RowsCarryTheStampOfTheRun ==
    IF scraper.stamp = None THEN database = scraper.start
    ELSE LET stamp_id == scraper.stamp[1].stamp_id
         IN /\ RowsOfRun("stamp") = {scraper.stamp[1]}
            /\ \A q \in scraper.start.stamp : q.stamp_id # stamp_id
            /\ \A kind \in {"balance", "price", "orderbook"} :
                    \A r \in RowsOfRun(kind) : r.stamp_id = stamp_id
            /\ \A r \in RowsOfRun("myorder") :
                    /\ r.modified_stamp_id = stamp_id
                    /\ (\A q \in scraper.start.myorder :
                            q.myorder_id # r.myorder_id)
                        => r.created_stamp_id = stamp_id

\* the second run is over: it added its stamp, a balance, a price and an
\* orderbook, and modified the order that the first run had created
C37_Witness ==
    /\ scraper.run = 2
    /\ scraper.pc = "finished"
    /\ scraper.start.stamp # {}
    /\ \A kind \in {"stamp", "balance", "price", "orderbook", "myorder"} :
            RowsOfRun(kind) # {}
    /\ \E r \in RowsOfRun("myorder") :
            r.created_stamp_id # r.modified_stamp_id

\* the currencies and the markets that the exchange can give
FetchableCurrencies ==
    UNION {{fetched[1][i] : i \in 1..Len(fetched[1])} :
                fetched \in FetchedCurrencies \ {None}}
FetchableMarkets ==
    UNION {{fetched[1][i] : i \in 1..Len(fetched[1])} :
                fetched \in FetchedMarketPrices \ {None}}

\* every currency the exchange can give is in the table
CurrenciesPresent ==
    \A f \in FetchableCurrencies :
        \E c \in database.currency : c.symbol = f.symbol /\ c.name = f.name

\* every market the exchange can give is in the table
MarketsPresent ==
    \A f \in FetchableMarkets :
        \E base \in database.currency, quote \in database.currency,
           m \in database.market :
            /\ base.symbol = f.base /\ quote.symbol = f.quote
            /\ m.base_id = base.currency_id /\ m.quote_id = quote.currency_id

Connections == {1, 2}
WriterKinds == {"stamp", "balance"}

WriterAt(pc, kind, id) == [pc |-> pc, kind |-> kind, id |-> id]

InitWriters ==
    /\ history = IdleHistory
    /\ rsi_history = IdleRsiHistory
    /\ rule = IdleRule
    /\ aggregation = IdleAggregation
    /\ store = IdleStore
    /\ graph = IdleGraph
    /\ scraper = IdleScraper
    /\ accepted = <<>>
    /\ call = NoCall
    /\ database = EmptyDatabase
    /\ writers = [c \in Connections |-> WriterAt("idle", "stamp", 0)]

\* add_stamp line 100, add_balance line 127: the next id is selected
SelectNextId ==
    /\ \E c \in Connections, kind \in WriterKinds :
        /\ writers[c].pc = "idle"
        /\ RowCount(database) < MaxRows
        /\ writers' = [writers EXCEPT
                        ![c] = WriterAt("transaction", kind,
                                        select_next_id(database, kind))]
        /\ call' = [op |-> "select_next_id", arg |-> None,
                    ret |-> [kind |-> "Ok"]]
    /\ UNCHANGED <<history, rsi_history, rule, aggregation, store, graph,
                   database, scraper, accepted>>

\* add_stamp lines 101-117, add_balance lines 128-147: the row is built with
\* the selected id and the transaction runs
RunTransaction ==
    /\ \E c \in Connections, fault \in Faults :
        LET w == writers[c]
            row == IF w.kind = "stamp" THEN Stamp_new(w.id, 1)
                   ELSE Balance_new(w.id, 1, 1, Amount(1), Amount(0))
            res == added(database, w.kind, row, fault)
        IN /\ w.pc = "transaction"
           /\ database' = res.self
           /\ writers' = [writers EXCEPT ![c].pc = "idle"]
           /\ call' = Returned(IF w.kind = "stamp" THEN "add_stamp"
                               ELSE "add_balance", res.ret)
    /\ UNCHANGED <<history, rsi_history, rule, aggregation, store, graph,
                   scraper, accepted>>

NextWriters ==
    \/ SelectNextId
    \/ RunTransaction

SpecWriters == InitWriters /\ [][NextWriters]_vars

\* C33: the id that an add_* selected is still the next id of its kind when
\* its transaction begins (no other add_* of the kind ran between the read
\* and the increment), and no two rows of a table have the same id.
C33_ReadInsideTransaction ==
    /\ \A c \in Connections :
            writers[c].pc = "transaction" =>
                writers[c].id = select_next_id(database, writers[c].kind)
    /\ \A kind \in WriterKinds :
            Cardinality(IdsOf(database, kind)) = Cardinality(database[kind])

====
